---- MODULE Spec2Model ----
(***************************************************************************)
(* Model of the asynchronous job orchestrator (RedisJobRegistry), the      *)
(* ingestion worker (run_ingest_job) and the SSE streaming layer           *)
(* (RobustSSEManager) of the RAG service.                                  *)
(***************************************************************************)
EXTENDS Integers, Sequences, FiniteSets, TLC

\* ----------------------------------------------------------------- bounds
NumJobs == 2                 \* ingest requests of Spec (one job id each)
NumAdmitJobs == 4            \* ingest requests of AdmitSpec
NumTimedJobs == 1            \* ingest requests of TimedSpec
NumApiJobs == 2              \* jobs of ApiSpec
NumSseJobs == 1              \* jobs of ReplaySpec and SseSpec
NumConns == 2                \* job streams opened in ReplaySpec
NumLiveConns == 1            \* job streams opened in SseSpec
event_buffer_size == 4       \* RobustSSEManager.event_buffer_size, scaled down
MaxApiEvents == 3            \* ApiSpec stops calling update_job at this many events
max_concurrent_jobs == 1     \* RedisJobRegistry.max_concurrent_jobs, scaled down
MaxChunks == 1               \* chunk_text returns 0..MaxChunks chunks
TickSeconds == 2100          \* seconds the clock advances per Tick
MaxTime == 6300              \* the clock stops here
WaitSeconds == 30            \* seconds the clock advances per Wait
MaxIdleTime == 150           \* the clock of IdleSpec stops here
PauseSeconds == 15           \* seconds the clock advances per Pause
MaxPauseTime == 30           \* the clock of BreakerSpec stops here
MaxCalls == 4                \* registry calls made in BreakerSpec
MaxBreakerCalls == 5         \* calls made through the breaker in CircuitSpec
MaxSubMessages == 3          \* messages published to the subscription of SubSpec
SubTickSeconds == 150        \* seconds the clock advances per SubTick
MaxSubTime == 750            \* the clock of SubSpec stops here
LateSeconds == 4200          \* seconds the clock advances per Outlive
MaxLateTime == 4200          \* the clock of OrderSpec stops here
MaxRetryPolicy == 3          \* largest max_retries a retry policy is given
rate_limit_requests == 2     \* SecurityMiddleware.rate_limit_requests, scaled down
rate_limit_window == 3       \* SecurityMiddleware.rate_limit_window, scaled down
RateTickSeconds == 1         \* seconds the clock advances per RateTick
MaxRateTime == 4             \* the clock of RateSpec stops here
NumEmbedJobs == 1            \* ingest requests of EmbedSpec
MaxQueries == 2              \* calls of query_documents in QuerySpec
QueryTickSeconds == 200      \* seconds the clock advances per QueryTick
MaxQueryTime == 400          \* the clock of QuerySpec stops here
MaxFetches == 2              \* calls of _fetch_content in FetchSpec
NumStoreJobs == 2            \* jobs of StoreSpec
NumCallers == 2              \* concurrent callers of the registry in StoreSpec
MaxStoreOps == 2             \* registry calls the callers make in StoreSpec
StoreTickSeconds == 1        \* seconds the clock advances per StoreTick
MaxStoreTime == 1            \* the clock of StoreSpec stops here
HistoryLimit == 2            \* ltrim(history, 0, 99): 100 events, scaled down
MaxRequests == 4             \* requests dispatched in RateSpec

\* ------------------------------------------------------ program constants
IngestTimeoutSeconds == 600  \* start_ingest_job: create_job(timeout_seconds=600)
IngestMaxRetries == 2        \* start_ingest_job: create_job(max_retries=2)
KeyTtlSlack == 3600          \* pipe.expire(job_key, timeout_seconds + 3600)
heartbeat_interval == 30     \* RobustSSEManager(heartbeat_interval=30)
StaleFactor == 3             \* stale_threshold = heartbeat_interval * 3
SweepSeconds == 60           \* cleanup_loop: asyncio.sleep(60)
HistoryMaxAge == 3600        \* event history dropped after one hour
failure_threshold == 3       \* redis_circuit_breaker.failure_threshold
recovery_timeout == 30       \* redis_circuit_breaker.recovery_timeout
HttpMaxRetries == 3          \* DEFAULT_HTTP_RETRY.max_retries
QueryCacheTtl == 300         \* query_cache = QueryCache(ttl=300)
HistoryTtl == 3600           \* pipe.expire(history key, 3600)
SubscriptionTimeout == 300   \* subscribe_to_job_events: timeout = 300

Max(a, b) == IF a > b THEN a ELSE b
Min(a, b) == IF a < b THEN a ELSE b

Conns == 1..Max(NumConns, NumLiveConns)

Callers == 1..NumCallers

Jobs == 1..Max(Max(Max(NumJobs, NumAdmitJobs), Max(NumTimedJobs, NumApiJobs)),
               Max(Max(NumSseJobs, NumEmbedJobs), NumStoreJobs))

Terminal == {"success", "error", "cancelled"}
NonTerminal == {"queued", "running"}
None == "None"
NoId == <<>>                 \* no Last-Event-ID / last_event_id is None
BogusId == <<0, 0>>          \* an event id the service never issued
NoTimer == -1                \* no sleep pending: the task does not run

VARIABLES
    jobs,       \* redis hashes job:{id}: partial function job id -> record
    expiry,     \* redis TTL of job:{id}: job id -> absolute expiry time
    active,     \* redis set jobs:active
    channel,    \* per job: events published on job:events:{id}, in order
    pc,         \* per request/job: position of start_ingest_job / run_ingest_job
    response,   \* per request: what POST /ingest answered
    cleaned,    \* run_ingest_job local cleaned_content: "unset"|"blank"|"text"
    nchunks,    \* run_ingest_job local len(semantic_chunks)
    exc,        \* exception caught by run_ingest_job's except clause
    upserts,    \* per job: vectors upserted to the vector store
    indexed,    \* per job: documents added to bm25_index
    now,        \* time.time()
    subq,       \* per stream: pub/sub messages received and not yet read
    sse_conn,   \* the SSEConnection objects: stream id -> record
    connections,      \* keys of RobustSSEManager.connections
    job_connections,  \* RobustSSEManager.job_connections: job -> stream ids
    event_history,    \* RobustSSEManager.event_history: job -> SSEEvents
    next_evt,   \* number of event ids generated so far
    spc,        \* per stream: position in stream_with_reconnection
    hdr,        \* per stream: the Last-Event-ID header of the request
    missed,     \* per stream: local missed_events
    ridx,       \* per stream: number of missed_events already replayed
    out,        \* per stream: the events yielded to the client, in order
    hb_due,     \* per stream: when the sleep of _send_heartbeats ends
    sweep_due,  \* when the sleep of cleanup_loop ends
    fault,      \* per stream: the internal failure that ended it, or None
    auth,       \* per stream: the bearer token of the request, or None
    redis_client,  \* RedisJobRegistry._redis: None or the client object
    cb,         \* redis_circuit_breaker: state, failure_count, last_failure_time
    calls,      \* log of the registry calls made so far
    rt,         \* one call of the retry wrapper around _fetch_content
    request_counts,  \* SecurityMiddleware.request_counts: ip -> timestamps
    served,     \* log of the requests dispatched by SecurityMiddleware
    embed_env,  \* app.config: EMBEDDING_PROVIDER and OPENAI_API_KEY
    embed_call, \* per job: how the call to the embedding provider ended
    vectors,    \* per job: the embeddings embed_texts returned to the worker
    stored,     \* per job: the embeddings add_documents put in the vector store
    queries,    \* log of the calls of query_documents
    searches,   \* number of retriever.search invocations
    generations,  \* number of llm_service.generate_answer invocations
    hit_count,  \* query_cache.hit_count
    fetches,    \* log of the calls of _fetch_content
    history,    \* redis lists job:events:{id}:history, newest event first
    reg_call,   \* per caller: its call of update_job, cleanup_job or
                \* list_active_jobs and how far it has got
    started,    \* number of registry calls the callers have made
    caller,     \* the caller that made the latest registry call
    cb_pc,      \* per caller: where it is in CircuitBreaker.call
    cb_step,    \* the latest step of CircuitBreaker.call and who took it
    cb_started, \* number of calls of CircuitBreaker.call made so far
    streak,     \* number of wrapped calls that failed since the last one
                \* that succeeded
    sub_pc,     \* one subscribe_to_job_events generator: where it is
    start_time, \* its local start_time
    sub_in,     \* the pub/sub messages that arrived and listen() has not
                \* returned yet
    sub_out,    \* the events it has yielded
    sub_sent    \* number of messages published on its channel

\* the state of RobustSSEManager and of its streams, except subq
sseVars == <<sse_conn, connections, job_connections, event_history, next_evt,
             spc, hdr, missed, ridx, out, hb_due, sweep_due, fault, auth>>

\* the rate limiter of SecurityMiddleware
rateVars == <<request_counts, served>>

\* the embedding configuration and the embeddings of each job
embedVars == <<embed_env, embed_call, vectors, stored>>

\* the query service and the query cache
queryVars == <<queries, searches, generations, hit_count>>

\* the callers of CircuitBreaker.call
guardVars == <<cb_pc, cb_step, cb_started, streak>>

\* one subscription to a job's channel
subVars == <<sub_pc, start_time, sub_in, sub_out, sub_sent>>

\* the state the ingest workers never touch
sideVars == <<rateVars, queryVars, fetches, guardVars, subVars>>

\* the event histories in redis and the callers of the registry
storeVars == <<history, reg_call, started, caller>>

\* the state of the services beside the registry, the workers and the streams
extVars == <<embedVars, sideVars, storeVars>>

\* the store connection with its circuit breaker, and the retry wrapper
svcVars == <<redis_client, cb, calls, rt, extVars>>

\* the state of the job registry, the workers and the clock
jobVars == <<jobs, expiry, active, channel, pc, response, cleaned, nchunks,
             exc, upserts, indexed, now>>

vars == <<jobs, expiry, active, channel, pc, response, cleaned, nchunks, exc,
          upserts, indexed, now, subq, sseVars, svcVars>>

\* ------------------------------------------------------------ job records

\* RedisJobState(job_id, timeout_seconds, max_retries) after __post_init__
RedisJobState(timeout_seconds, max_retries) ==
    [status |-> "queued", stage |-> "initialized", progress |-> 0,
     message |-> None, chunks_created |-> 0,
     created_at |-> now, updated_at |-> now,
     retry_count |-> 0, max_retries |-> max_retries,
     timeout_seconds |-> timeout_seconds]

\* get_job: the record, or None when the hash is absent
JobExists(j) == j \in DOMAIN jobs

\* the clock reaches t: redis no longer holds the job:{id} hashes whose TTL
\* (pipe.expire in create_job) has run out by then
PassTime(t) ==
    /\ now' = t
    /\ jobs' = [j \in {k \in DOMAIN jobs : expiry[k] > t} |-> jobs[j]]
    /\ expiry' = [j \in {k \in DOMAIN jobs : expiry[k] > t} |-> expiry[j]]

\* update_job, "Apply updates": setattr for every patch key the record has
ApplyUpdates(job, updates) ==
    [f \in DOMAIN job |->
        IF f = "updated_at" THEN now
        ELSE IF f \in DOMAIN updates THEN updates[f] ELSE job[f]]

\* the event payloads of update_job and create_job (the timestamp field,
\* a copy of updated_at / created_at, is left out)
JobUpdatedEvent(j, job) ==
    [type |-> "job_updated", job_id |-> j, status |-> job.status,
     stage |-> job.stage, progress |-> job.progress, message |-> job.message,
     chunks_created |-> job.chunks_created]

JobCreatedEvent(j, job) ==
    [type |-> "job_created", job_id |-> j, status |-> job.status]

\* _publish_event: publish on the job's channel
\* streams whose pub/sub subscription to the job's channel is active
Subscribers(j) ==
    {c \in DOMAIN sse_conn : spc[c] = "listening" /\ sse_conn[c].job_id = j}

PublishEvent(j, ev) ==
    /\ channel' = [channel EXCEPT ![j] = Append(@, ev)]
    /\ subq' = [c \in DOMAIN subq |->
                 IF c \in Subscribers(j) THEN Append(subq[c], ev) ELSE subq[c]]

\* update_job(job_id, **updates) with the store reachable: read, apply,
\* hset, publish.  A missing record returns False and changes nothing; a
\* record whose message is still None makes hset raise DataError before
\* anything is written.
UpdateJob(j, updates) ==
    IF JobExists(j) /\ ApplyUpdates(jobs[j], updates).message # None
    THEN LET cur == ApplyUpdates(jobs[j], updates) IN
         /\ jobs' = [jobs EXCEPT ![j] = cur]
         /\ PublishEvent(j, JobUpdatedEvent(j, cur))
    ELSE UNCHANGED <<jobs, channel, subq>>

\* --------------------------------------------------------------- create_job

\* list_active_jobs(limit): the ids examined are list(smembers)[:limit]
Examined(S, limit) ==
    /\ S \subseteq active
    /\ Cardinality(S) = Min(limit, Cardinality(active))

\* jobs returned by list_active_jobs for the examined ids S
ListedJobs(S) == S \cap DOMAIN jobs

\* create_job: running_jobs = listed jobs in status queued or running
RunningJobs(S) == {k \in ListedJobs(S) : jobs[k].status \in NonTerminal}

\* create_job lines 98-105: the concurrency check (list_active_jobs also
\* removes the examined ids whose record is missing)
CreateCheck(j) ==
    /\ pc[j] = "idle"
    /\ \A k \in Jobs : k < j => pc[k] # "idle"
    /\ \E S \in SUBSET active :
        /\ Examined(S, max_concurrent_jobs + 1)
        /\ active' = active \ (S \ DOMAIN jobs)
        /\ IF Cardinality(RunningJobs(S)) >= max_concurrent_jobs
           THEN /\ pc' = [pc EXCEPT ![j] = "denied"]
                /\ response' = [response EXCEPT ![j] = 500]
           ELSE /\ pc' = [pc EXCEPT ![j] = "admitted"]
                /\ UNCHANGED response
    /\ UNCHANGED <<jobs, expiry, channel, subq, cleaned, nchunks, exc, upserts,
                   indexed, now>>
    /\ UNCHANGED <<sseVars, svcVars>>

\* create_job lines 108-127: hset + sadd + expire in one pipeline
CreateStore(j) ==
    /\ pc[j] = "admitted"
    /\ jobs' = [k \in DOMAIN jobs \cup {j} |->
                  IF k = j
                  THEN RedisJobState(IngestTimeoutSeconds, IngestMaxRetries)
                  ELSE jobs[k]]
    /\ expiry' = [k \in DOMAIN jobs \cup {j} |->
                  IF k = j THEN now + IngestTimeoutSeconds + KeyTtlSlack
                  ELSE expiry[k]]
    /\ active' = active \cup {j}
    /\ pc' = [pc EXCEPT ![j] = "stored"]
    /\ UNCHANGED <<channel, subq, response, cleaned, nchunks, exc, upserts, indexed, now>>
    /\ UNCHANGED <<sseVars, svcVars>>

\* create_job lines 130-141 and start_ingest_job lines 248-250: publish
\* job_created, then spawn run_ingest_job and return the job id
CreatePublish(j) ==
    /\ pc[j] = "stored"
    /\ PublishEvent(j, JobCreatedEvent(j,
            RedisJobState(IngestTimeoutSeconds, IngestMaxRetries)))
    /\ pc' = [pc EXCEPT ![j] = "spawned"]
    /\ response' = [response EXCEPT ![j] = 200]
    /\ UNCHANGED <<jobs, expiry, active, cleaned, nchunks, exc, upserts,
                   indexed, now>>
    /\ UNCHANGED <<sseVars, svcVars>>

\* ----------------------------------------------------------- run_ingest_job

WorkerUnchanged ==
    UNCHANGED <<expiry, active, response, now, sseVars, redis_client, cb,
                calls, rt, sideVars, storeVars>>

\* ------------------------------------------------------------- embed_texts

\* how the call to the embedding provider can end
ProviderOutcomes == {"ok", "ImportError", "APIError"}

\* embed_texts line 12: the provider is called only under this configuration
CallsProvider(env) == env.provider = "openai" /\ env.api_key # None

\* embed_texts: where the vectors it returns come from, "provider" for the
\* provider's embeddings and "random" for np.random.rand
EmbedTexts(env, outcome) ==
    IF CallsProvider(env)
    THEN IF outcome = "ok" THEN "provider" ELSE "random"
    ELSE "random"

\* embed_texts as run by job j: the provider call ends as outcome
Embed(j, outcome) ==
    /\ embed_call' = [embed_call EXCEPT ![j] =
                        IF CallsProvider(embed_env) THEN outcome ELSE "none"]
    /\ vectors' = [vectors EXCEPT ![j] = EmbedTexts(embed_env, outcome)]

Raise(j, e) ==
    /\ pc' = [pc EXCEPT ![j] = "except"]
    /\ exc' = [exc EXCEPT ![j] = e]

\* lines 80-86: update(status=RUNNING, stage="fetching", progress=10.0)
WStart(j) ==
    /\ pc[j] = "spawned"
    /\ UpdateJob(j, [status |-> "running", stage |-> "fetching",
                     progress |-> 10,
                     message |-> "Fetching and cleaning content..."])
    /\ pc' = [pc EXCEPT ![j] = "fetching"]
    /\ UNCHANGED <<cleaned, nchunks, exc, upserts, indexed>>
    /\ UNCHANGED embedVars
    /\ WorkerUnchanged

\* WFetch without the empty-content check of lines 90-97
WFetch_NoEmptyCheck(j) ==
    /\ pc[j] = "fetching"
    /\ \E r \in {"raise", "blank", "text"} :
        IF r = "raise"
        THEN /\ Raise(j, "fetch")
             /\ UNCHANGED <<jobs, channel, subq, cleaned>>
        ELSE /\ cleaned' = [cleaned EXCEPT ![j] = r]
             /\ UpdateJob(j, [stage |-> "chunking", progress |-> 20,
                              message |-> "Creating semantic chunks..."])
             /\ pc' = [pc EXCEPT ![j] = "chunking"]
             /\ UNCHANGED exc
    /\ UNCHANGED <<nchunks, upserts, indexed>>
    /\ UNCHANGED embedVars
    /\ WorkerUnchanged

\* lines 88-105: _fetch_content, the empty-content check, update(chunking)
WFetch(j) ==
    /\ pc[j] = "fetching"
    /\ \E r \in {"raise", "blank", "text"} :
        CASE r = "raise" ->
                /\ Raise(j, "fetch")
                /\ UNCHANGED <<jobs, channel, subq, cleaned>>
          [] r = "blank" ->
                /\ cleaned' = [cleaned EXCEPT ![j] = "blank"]
                /\ UpdateJob(j, [status |-> "error",
                                 message |-> "No content after cleaning"])
                /\ pc' = [pc EXCEPT ![j] = "done"]
                /\ UNCHANGED exc
          [] r = "text" ->
                /\ cleaned' = [cleaned EXCEPT ![j] = "text"]
                /\ UpdateJob(j, [stage |-> "chunking", progress |-> 20,
                                 message |-> "Creating semantic chunks..."])
                /\ pc' = [pc EXCEPT ![j] = "chunking"]
                /\ UNCHANGED exc
    /\ UNCHANGED <<nchunks, upserts, indexed>>
    /\ UNCHANGED embedVars
    /\ WorkerUnchanged

\* lines 107-128: chunk_text, the no-chunks check, update(embedding)
WChunk(j) ==
    /\ pc[j] = "chunking"
    /\ \/ /\ Raise(j, "chunk")
          /\ UNCHANGED <<jobs, channel, subq, nchunks>>
       \/ \E n \in 0..MaxChunks :
            /\ nchunks' = [nchunks EXCEPT ![j] = n]
            /\ IF n = 0
               THEN /\ UpdateJob(j, [status |-> "error",
                           message |-> "No chunks created from content"])
                    /\ pc' = [pc EXCEPT ![j] = "done"]
               ELSE /\ UpdateJob(j, [stage |-> "embedding", progress |-> 40,
                           message |-> "Creating embeddings for chunks..."])
                    /\ pc' = [pc EXCEPT ![j] = "embedding"]
            /\ UNCHANGED exc
    /\ UNCHANGED <<cleaned, upserts, indexed>>
    /\ UNCHANGED embedVars
    /\ WorkerUnchanged

\* WEmbed without the update(storing) of lines 146-151
WEmbed_NoUpdate(j) ==
    /\ pc[j] = "embedding"
    /\ \/ /\ Raise(j, "embed")
          /\ UNCHANGED <<jobs, channel, subq, embed_call, vectors>>
       \/ /\ \E outcome \in ProviderOutcomes : Embed(j, outcome)
          /\ pc' = [pc EXCEPT ![j] = "storing"]
          /\ UNCHANGED <<jobs, channel, subq, exc>>
    /\ UNCHANGED <<cleaned, nchunks, upserts, indexed, embed_env, stored>>
    /\ WorkerUnchanged

\* lines 131-151: embed_texts, update(storing)
WEmbed(j) ==
    /\ pc[j] = "embedding"
    /\ \/ /\ Raise(j, "embed")
          /\ UNCHANGED <<jobs, channel, subq, embed_call, vectors>>
       \/ /\ \E outcome \in ProviderOutcomes : Embed(j, outcome)
          /\ UpdateJob(j, [stage |-> "storing", progress |-> 70,
                            message |-> "Storing in vector database..."])
          /\ pc' = [pc EXCEPT ![j] = "storing"]
          /\ UNCHANGED exc
    /\ UNCHANGED <<cleaned, nchunks, upserts, indexed, embed_env, stored>>
    /\ WorkerUnchanged

\* lines 153-166: ensure_collection, add_documents, update(indexing)
WStore(j) ==
    /\ pc[j] = "storing"
    /\ \/ /\ Raise(j, "store")
          /\ UNCHANGED <<jobs, channel, subq, upserts, stored>>
       \/ /\ upserts' = [upserts EXCEPT ![j] = @ + nchunks[j]]
          /\ stored' = [stored EXCEPT ![j] = vectors[j]]
          /\ UpdateJob(j, [stage |-> "indexing", progress |-> 85,
                            message |-> "Building BM25 index..."])
          /\ pc' = [pc EXCEPT ![j] = "indexing"]
          /\ UNCHANGED exc
    /\ UNCHANGED <<cleaned, nchunks, indexed, embed_env, embed_call, vectors>>
    /\ WorkerUnchanged

\* lines 169-197: bm25_index.add_documents, update(SUCCESS, completed, 100)
WIndex(j) ==
    /\ pc[j] = "indexing"
    /\ \/ /\ Raise(j, "index")
          /\ UNCHANGED <<jobs, channel, subq, indexed>>
       \/ /\ indexed' = [indexed EXCEPT ![j] = @ + nchunks[j]]
          /\ UpdateJob(j, [status |-> "success", stage |-> "completed",
                            progress |-> 100,
                            message |-> "Successfully ingested semantic chunks",
                            chunks_created |-> nchunks[j]])
          /\ pc' = [pc EXCEPT ![j] = "recording"]
          /\ UNCHANGED exc
    /\ UNCHANGED <<cleaned, nchunks, upserts>>
    /\ UNCHANGED embedVars
    /\ WorkerUnchanged

\* lines 199-214: metrics, log and the unguarded Langfuse trace update,
\* still inside the try block
WRecord(j) ==
    /\ pc[j] = "recording"
    /\ \/ Raise(j, "langfuse")
       \/ /\ pc' = [pc EXCEPT ![j] = "done"]
          /\ UNCHANGED exc
    /\ UNCHANGED <<jobs, channel, subq, cleaned, nchunks, upserts, indexed>>
    /\ UNCHANGED embedVars
    /\ WorkerUnchanged

\* str(e) as put into the error message, line 229
IngestionFailed(e) == "Ingestion failed: " \o e

\* WExcept resetting the progress of the failed job
WExcept_ResetProgress(j) ==
    /\ pc[j] = "except"
    /\ UpdateJob(j, [status |-> "error", stage |-> "error", progress |-> 0,
                     message |-> IngestionFailed(exc[j])])
    /\ pc' = [pc EXCEPT ![j] = "done"]
    /\ UNCHANGED <<cleaned, nchunks, exc, upserts, indexed>>
    /\ UNCHANGED embedVars
    /\ WorkerUnchanged

\* WExcept only logging the failure, without the update of lines 225-230
WExcept_LogOnly(j) ==
    /\ pc[j] = "except"
    /\ pc' = [pc EXCEPT ![j] = "done"]
    /\ UNCHANGED <<jobs, channel, subq, cleaned, nchunks, exc, upserts, indexed>>
    /\ UNCHANGED embedVars
    /\ WorkerUnchanged

\* lines 216-233: the except clause; the exception is consumed here
WExcept(j) ==
    /\ pc[j] = "except"
    /\ UpdateJob(j, [status |-> "error", stage |-> "error",
                     message |-> IngestionFailed(exc[j])])
    /\ pc' = [pc EXCEPT ![j] = "done"]
    /\ UNCHANGED <<cleaned, nchunks, exc, upserts, indexed>>
    /\ UNCHANGED embedVars
    /\ WorkerUnchanged

Worker(j) ==
    \/ WStart(j) \/ WFetch(j) \/ WChunk(j) \/ WEmbed(j)
    \/ WStore(j) \/ WIndex(j) \/ WRecord(j) \/ WExcept(j)

\* ------------------------------------------------- registry called directly

\* patches a caller of update_job may pass
ApiPatches ==
    {[status |-> st] : st \in NonTerminal \cup Terminal}
    \cup {[status |-> st, message |-> "note"] : st \in NonTerminal \cup Terminal}
    \cup {[progress |-> 50, message |-> "note"]}

\* update_job(job_id, **updates) called on a job that create_job returned
ApiUpdate(j) ==
    /\ pc[j] = "spawned"
    /\ Len(channel[j]) < MaxApiEvents
    /\ \E updates \in ApiPatches : UpdateJob(j, updates)
    /\ UNCHANGED <<expiry, active, pc, response, cleaned, nchunks, exc,
                   upserts, indexed, now>>
    /\ UNCHANGED <<sseVars, svcVars>>

\* --------------------------------------------------------- RobustSSEManager

\* event ids: <<k, n>> stands for "replay_" k times, then the n-th generated
\* "evt_<ms>_<uuid>" id
FreshId == <<0, next_evt + 1>>

\* f"replay_{event.id}", stream_with_reconnection line 201
ReplayId(id) == <<id[1] + 1, id[2]>>

SSEEvent(id, event_type, data, c) ==
    [id |-> id, event_type |-> event_type, data |-> data,
     timestamp |-> now, connection_id |-> c]

\* deque(maxlen=event_buffer_size).append
DequeAppend(q, e) ==
    IF Len(q) >= event_buffer_size THEN Append(Tail(q), e) ELSE Append(q, e)

\* stream_with_reconnection line 218: connection.last_ping = time.time()
Touch(conn) == [conn EXCEPT !.last_ping = now]

\* create_sse_event(event_type, data, connection, event_id) on the
\* connection object conn of stream c: event_id NoId means a fresh id is
\* generated
CreateSseEvent(c, conn, event_type, data, event_id) ==
    LET id == IF event_id = NoId THEN FreshId ELSE event_id
        ev == SSEEvent(id, event_type, data, c)
        j  == conn.job_id
    IN  /\ next_evt' = IF event_id = NoId THEN next_evt + 1 ELSE next_evt
        /\ sse_conn' = [sse_conn EXCEPT ![c] = [conn EXCEPT !.last_event_id = id]]
        /\ event_history' =
              IF j \in DOMAIN event_history
              THEN [event_history EXCEPT ![j] = DequeAppend(@, ev)]
              ELSE event_history
        /\ out' = [out EXCEPT ![c] = Append(@, ev)]

\* get_missed_events(connection)
MissedEvents(c) ==
    LET last == sse_conn[c].last_event_id
        j    == sse_conn[c].job_id
    IN  IF last = NoId \/ j \notin DOMAIN event_history
        THEN <<>>
        ELSE LET h  == event_history[j]
                 at == {i \in 1..Len(h) : h[i].id = last}
             IN  IF at = {} THEN <<>>
                 ELSE SubSeq(h, (CHOOSE i \in at : \A k \in at : i <= k) + 1,
                             Len(h))

\* the payload of a replay event, lines 194-199
ReplayData(ev) ==
    [type |-> "event_replay", original_event |-> ev.event_type,
     original_data |-> ev.data, original_timestamp |-> ev.timestamp]

\* ids a client can present: none, one it made up, or one it has been sent
KnownIds == {NoId, BogusId}
            \cup UNION {{out[c][i].id : i \in 1..Len(out[c])} : c \in Conns}

\* routers/ingest.py lines 19-31
HARDCODED_SSE_TOKENS ==
    {"dev-token-123", "test-token-456", "demo-token-789", "admin-super-secret"}

SSE_AUTH_ENABLED == TRUE     \* os.getenv("SSE_AUTH_ENABLED", "true")
SSE_ALLOW_NO_TOKEN == FALSE  \* os.getenv("SSE_ALLOW_NO_TOKEN", "false")

\* what a request can carry as bearer credentials
Credentials == {None, "dev-token-123", "stolen-token"}

\* verify_sse_token accepting whatever token is presented
VerifySseToken_AnyToken(credentials) ==
    IF ~SSE_AUTH_ENABLED THEN "auth_disabled"
    ELSE IF credentials = None
         THEN IF SSE_ALLOW_NO_TOKEN THEN "no_token_allowed" ELSE "401"
         ELSE credentials

\* verify_sse_token(credentials): the token string handed to the route, or
\* "401" for the HTTPException
VerifySseToken(credentials) ==
    IF ~SSE_AUTH_ENABLED THEN "auth_disabled"
    ELSE IF credentials = None
         THEN IF SSE_ALLOW_NO_TOKEN THEN "no_token_allowed" ELSE "401"
         ELSE IF credentials \in HARDCODED_SSE_TOKENS THEN credentials
              ELSE "401"

\* stream_job_progress lines 128-164: 401 from the token dependency, 404
\* for an unknown job, else create_connection
OpenStream(c) ==
    /\ spc[c] = "none"
    /\ \A k \in Conns : k < c => spc[k] # "none"
    /\ \E j \in 1..NumSseJobs, last_event_id \in KnownIds,
          credentials \in Credentials :
        /\ auth' = [auth EXCEPT ![c] = credentials]
        /\ IF VerifySseToken(credentials) = "401"
           THEN /\ spc' = [spc EXCEPT ![c] = "401"]
                /\ UNCHANGED <<sse_conn, connections, job_connections,
                               event_history, hdr>>
           ELSE IF ~JobExists(j)
           THEN /\ spc' = [spc EXCEPT ![c] = "404"]
                /\ UNCHANGED <<sse_conn, connections, job_connections,
                               event_history, hdr>>
           ELSE
             /\ spc' = [spc EXCEPT ![c] = "open"]
             /\ hdr' = [hdr EXCEPT ![c] = last_event_id]
             /\ sse_conn' = [k \in DOMAIN sse_conn \cup {c} |->
                    IF k = c
                    THEN [job_id |-> j, last_event_id |-> last_event_id,
                          created_at |-> now, last_ping |-> now,
                          is_active |-> TRUE]
                    ELSE sse_conn[k]]
             /\ connections' = connections \cup {c}
             /\ job_connections' =
                    [k \in DOMAIN job_connections \cup {j} |->
                        IF k = j
                        THEN IF j \in DOMAIN job_connections
                             THEN Append(job_connections[j], c) ELSE <<c>>
                        ELSE job_connections[k]]
             /\ event_history' =
                    [k \in DOMAIN event_history \cup {j} |->
                        IF k \in DOMAIN event_history
                        THEN event_history[k] ELSE <<>>]
    /\ UNCHANGED <<next_evt, missed, ridx, out, subq>>
    /\ UNCHANGED <<hb_due, sweep_due, fault>>
    /\ UNCHANGED <<jobVars, svcVars>>

\* stream_with_reconnection lines 175-187: yield connection_start
StreamStart(c) ==
    /\ spc[c] = "open"
    /\ CreateSseEvent(c, sse_conn[c], "connection",
            [type |-> "connection_start", connection_id |-> c], NoId)
    /\ spc' = [spc EXCEPT ![c] = "started"]
    /\ UNCHANGED <<connections, job_connections, hdr, missed, ridx, subq>>
    /\ UNCHANGED <<hb_due, sweep_due, fault, auth>>
    /\ UNCHANGED <<jobVars, svcVars>>

\* yield of the (i)th missed event as a replay event, lines 192-202
YieldReplay(c, ev) ==
    CreateSseEvent(c, sse_conn[c], "replay", ReplayData(ev), ReplayId(ev.id))

\* lines 189-207, resumed after connection_start: get_missed_events and
\* the first replay; when nothing was missed, the heartbeat task is created
\* and the event source is entered
StreamResume(c) ==
    /\ spc[c] = "started"
    /\ LET M == MissedEvents(c) IN
        /\ missed' = [missed EXCEPT ![c] = M]
        /\ IF M = <<>>
           THEN /\ spc' = [spc EXCEPT ![c] = "source"]
                /\ hb_due' = [hb_due EXCEPT ![c] = now + heartbeat_interval]
                /\ UNCHANGED <<sse_conn, event_history, next_evt, out, ridx>>
           ELSE /\ YieldReplay(c, M[1])
                /\ ridx' = [ridx EXCEPT ![c] = 1]
                /\ spc' = [spc EXCEPT ![c] = "replay"]
                /\ UNCHANGED hb_due
    /\ UNCHANGED <<connections, job_connections, hdr, subq>>
    /\ UNCHANGED <<sweep_due, fault, auth>>
    /\ UNCHANGED <<jobVars, svcVars>>

\* lines 191-207: the next replay, or the end of the replay loop, where
\* the heartbeat task is created
StreamReplay(c) ==
    /\ spc[c] = "replay"
    /\ IF ridx[c] < Len(missed[c])
       THEN /\ YieldReplay(c, missed[c][ridx[c] + 1])
            /\ ridx' = [ridx EXCEPT ![c] = @ + 1]
            /\ UNCHANGED <<spc, hb_due>>
       ELSE /\ spc' = [spc EXCEPT ![c] = "source"]
            /\ hb_due' = [hb_due EXCEPT ![c] = now + heartbeat_interval]
            /\ UNCHANGED <<sse_conn, event_history, next_evt, out, ridx>>
    /\ UNCHANGED <<connections, job_connections, hdr, missed, subq>>
    /\ UNCHANGED <<sweep_due, fault, auth>>
    /\ UNCHANGED <<jobVars, svcVars>>

\* event_generator lines 169-174 through stream lines 210-225
StreamAuth(c) ==
    /\ spc[c] = "source"
    /\ CreateSseEvent(c, Touch(sse_conn[c]), "auth_success",
            [type |-> "auth_success", connection_id |-> c], NoId)
    /\ spc' = [spc EXCEPT ![c] = "authed"]
    /\ UNCHANGED <<connections, job_connections, hdr, missed, ridx, subq>>
    /\ UNCHANGED <<hb_due, sweep_due, fault, auth>>
    /\ UNCHANGED <<jobVars, svcVars>>

\* the job_status payload, event_generator lines 179-187
JobStatusEvent(j) ==
    [type |-> "job_status", job_id |-> j, status |-> jobs[j].status,
     stage |-> jobs[j].stage, progress |-> jobs[j].progress,
     message |-> jobs[j].message, chunks_created |-> jobs[j].chunks_created]

\* event_generator without the snapshot of lines 178-187
StreamSnapshot_Skip(c) ==
    /\ spc[c] = "authed"
    /\ spc' = [spc EXCEPT ![c] = "snapshot"]
    /\ UNCHANGED <<sse_conn, event_history, next_evt, out>>
    /\ UNCHANGED <<connections, job_connections, hdr, missed, ridx, subq>>
    /\ UNCHANGED <<hb_due, sweep_due, fault, auth>>
    /\ UNCHANGED <<jobVars, svcVars>>

\* event_generator lines 176-187: read the job, yield its snapshot
StreamSnapshot(c) ==
    /\ spc[c] = "authed"
    /\ IF JobExists(sse_conn[c].job_id)
       THEN CreateSseEvent(c, Touch(sse_conn[c]), "job_status",
                JobStatusEvent(sse_conn[c].job_id), NoId)
       ELSE UNCHANGED <<sse_conn, event_history, next_evt, out>>
    /\ spc' = [spc EXCEPT ![c] = "snapshot"]
    /\ UNCHANGED <<connections, job_connections, hdr, missed, ridx, subq>>
    /\ UNCHANGED <<hb_due, sweep_due, fault, auth>>
    /\ UNCHANGED <<jobVars, svcVars>>

\* subscribe_to_job_events lines 233-237: the subscription becomes active
StreamSubscribe(c) ==
    /\ spc[c] = "snapshot"
    /\ spc' = [spc EXCEPT ![c] = "listening"]
    /\ UNCHANGED <<sse_conn, connections, job_connections, event_history,
                   next_evt, hdr, missed, ridx, out, subq>>
    /\ UNCHANGED <<hb_due, sweep_due, fault, auth>>
    /\ UNCHANGED <<jobVars, svcVars>>

\* StreamDeliver without the break of lines 227-230
StreamDeliver_NoBreak(c) ==
    /\ spc[c] = "listening"
    /\ subq[c] # <<>>
    /\ LET ev == Head(subq[c]) IN
        /\ subq' = [subq EXCEPT ![c] = Tail(@)]
        /\ CreateSseEvent(c, Touch(sse_conn[c]), ev.type, ev, NoId)
        /\ UNCHANGED spc
    /\ UNCHANGED <<connections, job_connections, hdr, missed, ridx>>
    /\ UNCHANGED <<hb_due, sweep_due, fault, auth>>
    /\ UNCHANGED <<jobVars, svcVars>>

\* subscribe_to_job_events lines 243-252 through stream lines 210-230: the
\* next pub/sub message is yielded; a terminal job_updated ends the loop
StreamDeliver(c) ==
    /\ spc[c] = "listening"
    /\ subq[c] # <<>>
    /\ LET ev == Head(subq[c]) IN
        /\ subq' = [subq EXCEPT ![c] = Tail(@)]
        /\ CreateSseEvent(c, Touch(sse_conn[c]), ev.type, ev, NoId)
        /\ spc' = [spc EXCEPT ![c] =
                IF ev.type = "job_updated" /\ ev.status \in Terminal
                THEN "closing" ELSE "listening"]
    /\ UNCHANGED <<connections, job_connections, hdr, missed, ridx>>
    /\ UNCHANGED <<hb_due, sweep_due, fault, auth>>
    /\ UNCHANGED <<jobVars, svcVars>>

\* _cleanup_connection without the removal from job_connections
CleanupConnection_KeepListed(c) ==
    IF c \notin connections
    THEN UNCHANGED <<sse_conn, connections, job_connections>>
    ELSE /\ sse_conn' = [sse_conn EXCEPT ![c].is_active = FALSE]
         /\ connections' = connections \ {c}
         /\ UNCHANGED job_connections

\* _cleanup_connection(connection_id)
CleanupConnection(c) ==
    IF c \notin connections
    THEN UNCHANGED <<sse_conn, connections, job_connections>>
    ELSE LET j == sse_conn[c].job_id IN
         /\ sse_conn' = [sse_conn EXCEPT ![c].is_active = FALSE]
         /\ connections' = connections \ {c}
         /\ job_connections' =
              IF j \in DOMAIN job_connections
              THEN LET rest == SelectSeq(job_connections[j],
                                         LAMBDA k : k # c) IN
                   IF rest = <<>>
                   THEN [k \in DOMAIN job_connections \ {j} |->
                            job_connections[k]]
                   ELSE [job_connections EXCEPT ![j] = rest]
              ELSE job_connections

\* lines 232-237 and 257-259: the loop has ended ("closing": the heartbeat
\* task is cancelled) or the except clause has yielded its error event
\* ("failing"); the connection is cleaned
StreamFinish(c) ==
    /\ spc[c] \in {"closing", "failing"}
    /\ CleanupConnection(c)
    /\ hb_due' = [hb_due EXCEPT ![c] =
                    IF spc[c] = "closing" THEN NoTimer ELSE @]
    /\ spc' = [spc EXCEPT ![c] = "closed"]
    /\ UNCHANGED <<event_history, next_evt, hdr, missed, ridx, out, subq>>
    /\ UNCHANGED <<sweep_due, fault, auth>>
    /\ UNCHANGED <<jobVars, svcVars>>

\* the client goes away while the generator is suspended: the generator is
\* closed at its yield (lines 239-241, 257-259), or, past the replay block,
\* is_disconnected() answers True at the next event and the loop is left
\* through lines 212-215 and 232-237, which also cancels the heartbeat task
StreamDisconnect(c) ==
    /\ spc[c] \in {"started", "replay", "source", "authed", "snapshot",
                   "listening"}
    /\ CleanupConnection(c)
    /\ \/ UNCHANGED hb_due
       \/ /\ hb_due[c] # NoTimer
          /\ hb_due' = [hb_due EXCEPT ![c] = NoTimer]
    /\ spc' = [spc EXCEPT ![c] = "closed"]
    /\ UNCHANGED <<event_history, next_evt, hdr, missed, ridx, out, subq>>
    /\ UNCHANGED <<sweep_due, fault, auth>>
    /\ UNCHANGED <<jobVars, svcVars>>

Stream(c) ==
    \/ OpenStream(c) \/ StreamStart(c) \/ StreamResume(c) \/ StreamReplay(c)
    \/ StreamAuth(c) \/ StreamSnapshot(c) \/ StreamSubscribe(c)
    \/ StreamDeliver(c) \/ StreamFinish(c) \/ StreamDisconnect(c)

\* the only stream on its job: its replay block is empty, because
\* get_missed_events looks for the id of the connection_start event the
\* stream has just appended to the history
SoloStream(c) ==
    \/ OpenStream(c) \/ StreamStart(c) \/ StreamResume(c)
    \/ StreamAuth(c) \/ StreamSnapshot(c) \/ StreamSubscribe(c)
    \/ StreamDeliver(c) \/ StreamFinish(c) \/ StreamDisconnect(c)

\* ------------------------------------------- store failures on a job stream

\* event_generator lines 177 and 198-203: get_job raises, the generator
\* yields a stream_error payload and ends
StreamSnapshotFail(c) ==
    /\ spc[c] = "authed"
    /\ CreateSseEvent(c, Touch(sse_conn[c]), "stream_error",
            [type |-> "stream_error", message |-> "Stream error: get_job"],
            NoId)
    /\ fault' = [fault EXCEPT ![c] = "get_job"]
    /\ spc' = [spc EXCEPT ![c] = "closing"]
    /\ UNCHANGED <<connections, job_connections, hdr, missed, ridx, subq>>
    /\ UNCHANGED <<hb_due, sweep_due, auth>>
    /\ UNCHANGED <<jobVars, svcVars>>

\* subscribe_to_job_events lines 233-236 and 243 with lines 261-277: the
\* subscription cannot be made, or breaks while listening; the error is
\* logged and the event source ends
StreamSubscribeFail(c) ==
    /\ spc[c] \in {"snapshot", "listening"}
    /\ fault' = [fault EXCEPT ![c] =
                   IF spc[c] = "snapshot" THEN "subscribe" ELSE "listen"]
    /\ spc' = [spc EXCEPT ![c] = "closing"]
    /\ UNCHANGED <<sse_conn, connections, job_connections, event_history,
                   next_evt, hdr, missed, ridx, out, subq>>
    /\ UNCHANGED <<hb_due, sweep_due, auth>>
    /\ UNCHANGED <<jobVars, svcVars>>

\* lines 221-225 and 242-256: create_sse_event raises while formatting a
\* live event it has already put into the history; the except clause
\* yields an error event
StreamFormatFail(c) ==
    /\ spc[c] = "listening"
    /\ subq[c] # <<>>
    /\ LET ev   == Head(subq[c])
           j    == sse_conn[c].job_id
           lost == SSEEvent(FreshId, ev.type, ev, c)
           err  == SSEEvent(<<0, next_evt + 2>>, "error",
                            [type |-> "stream_error", message |-> "format"], c)
       IN  /\ subq' = [subq EXCEPT ![c] = Tail(@)]
           /\ next_evt' = next_evt + 2
           /\ sse_conn' = [sse_conn EXCEPT ![c] =
                   [Touch(@) EXCEPT !.last_event_id = err.id]]
           /\ event_history' =
                 IF j \in DOMAIN event_history
                 THEN [event_history EXCEPT
                         ![j] = DequeAppend(DequeAppend(@, lost), err)]
                 ELSE event_history
           /\ out' = [out EXCEPT ![c] = Append(@, err)]
    /\ fault' = [fault EXCEPT ![c] = "format"]
    /\ spc' = [spc EXCEPT ![c] = "failing"]
    /\ UNCHANGED <<connections, job_connections, hdr, missed, ridx>>
    /\ UNCHANGED <<hb_due, sweep_due, auth>>
    /\ UNCHANGED <<jobVars, svcVars>>

StreamFault(c) ==
    StreamSnapshotFail(c) \/ StreamSubscribeFail(c) \/ StreamFormatFail(c)

\* ----------------------------------------------- heartbeats and the sweep

\* _send_heartbeats: the sleep has ended
Heartbeat(c) ==
    /\ hb_due[c] # NoTimer
    /\ now >= hb_due[c]
    /\ IF c \notin connections
       THEN /\ hb_due' = [hb_due EXCEPT ![c] = NoTimer]
            /\ UNCHANGED sse_conn
       ELSE /\ sse_conn' = [sse_conn EXCEPT ![c].last_ping = now]
            /\ hb_due' = [hb_due EXCEPT ![c] = now + heartbeat_interval]
    /\ UNCHANGED <<connections, job_connections, event_history, next_evt,
                   spc, hdr, missed, ridx, out, subq>>
    /\ UNCHANGED <<sweep_due, fault, auth>>
    /\ UNCHANGED <<jobVars, svcVars>>

\* _cleanup_stale_connections lines 306-312
StaleConnections ==
    {c \in connections :
        now - sse_conn[c].last_ping > heartbeat_interval * StaleFactor}

\* job_connections after _cleanup_connection of every connection in S
WithoutConnections(S) ==
    LET rest(j) == SelectSeq(job_connections[j], LAMBDA k : k \notin S) IN
    [j \in {k \in DOMAIN job_connections : rest(k) # <<>>} |-> rest(j)]

\* lines 318-325: histories of jobs without connection, an hour old
OldHistories(jc) ==
    {j \in DOMAIN event_history :
        /\ j \notin DOMAIN jc
        /\ Len(event_history[j]) > 0
        /\ now - event_history[j][Len(event_history[j])].timestamp
              > HistoryMaxAge}

\* cleanup_loop: one round of _cleanup_stale_connections, then sleep(60)
Sweep ==
    /\ now >= sweep_due
    /\ LET stale == StaleConnections
           jc    == WithoutConnections(stale)
       IN  /\ sse_conn' = [k \in DOMAIN sse_conn |->
                   IF k \in stale
                   THEN [sse_conn[k] EXCEPT !.is_active = FALSE]
                   ELSE sse_conn[k]]
           /\ connections' = connections \ stale
           /\ job_connections' = jc
           /\ event_history' =
                 [j \in DOMAIN event_history \ OldHistories(jc) |->
                    event_history[j]]
    /\ sweep_due' = now + SweepSeconds
    /\ UNCHANGED <<next_evt, spc, hdr, missed, ridx, out, subq>>
    /\ UNCHANGED <<hb_due, fault, auth>>
    /\ UNCHANGED <<jobVars, svcVars>>

\* time passes while no sleep of a heartbeat task or of the sweep has ended
Wait ==
    /\ now + WaitSeconds <= MaxIdleTime
    /\ sweep_due > now
    /\ \A c \in Conns : hb_due[c] = NoTimer \/ hb_due[c] > now
    /\ PassTime(now + WaitSeconds)
    /\ UNCHANGED <<active, channel, subq, pc, response, cleaned, nchunks, exc,
                   upserts, indexed>>
    /\ UNCHANGED <<sseVars, svcVars>>

\* ------------------------------------------- circuit breaker, _get_redis

\* CircuitBreaker.__init__
NewBreaker == [state |-> "closed", failure_count |-> 0,
               last_failure_time |-> NoTimer]

\* _should_attempt_reset that is satisfied after half the recovery timeout
ShouldAttemptReset_Early(b) ==
    /\ b.last_failure_time # NoTimer
    /\ 2 * (now - b.last_failure_time) >= recovery_timeout

\* _should_attempt_reset
ShouldAttemptReset(b) ==
    /\ b.last_failure_time # NoTimer
    /\ now - b.last_failure_time >= recovery_timeout

\* call lines 35-40: TRUE when the call is refused ("failing fast")
FailsFast(b) == b.state = "open" /\ ~ShouldAttemptReset(b)

\* call lines 35-38: the breaker as func is entered
Entered(b) == IF b.state = "open" THEN [b EXCEPT !.state = "half_open"] ELSE b

\* _on_success without the reset of failure_count
OnSuccess_KeepCount(b) ==
    [b EXCEPT !.state = IF b.state = "half_open" THEN "closed" ELSE @]

\* _on_success
OnSuccess(b) ==
    [b EXCEPT !.failure_count = 0,
              !.state = IF b.state = "half_open" THEN "closed" ELSE @]

\* _on_failure
OnFailure(b) ==
    [b EXCEPT !.failure_count = @ + 1,
              !.last_failure_time = now,
              !.state = IF b.failure_count + 1 >= failure_threshold
                        THEN "open" ELSE @]

\* the registry methods that start with _get_redis()
RegistryOps == {"create_job", "get_job", "update_job", "_publish_event"}

CallRecord(op, result, commands) ==
    [op |-> op, result |-> result, commands |-> commands, at |-> now]

\* one registry method up to the end of its first store command:
\* _get_redis (lines 57-79), which goes through the breaker only while
\* self._redis is None, then the command itself; ping_ok and command_ok say
\* whether the server answers
RegistryCall ==
    /\ Len(calls) < MaxCalls
    /\ \E op \in RegistryOps, ping_ok \in BOOLEAN, command_ok \in BOOLEAN :
        IF redis_client = None
        THEN IF FailsFast(cb)
             THEN /\ calls' = Append(calls, CallRecord(op, "breaker_open", 0))
                  /\ UNCHANGED <<cb, redis_client>>
             ELSE /\ redis_client' = "client"
                  /\ IF ping_ok
                     THEN /\ cb' = OnSuccess(Entered(cb))
                          /\ calls' = Append(calls, CallRecord(op,
                                IF command_ok THEN "ok" ELSE "store_error", 2))
                     ELSE /\ cb' = OnFailure(Entered(cb))
                          /\ calls' = Append(calls,
                                CallRecord(op, "store_error", 1))
        ELSE /\ calls' = Append(calls, CallRecord(op,
                    IF command_ok THEN "ok" ELSE "store_error", 1))
             /\ UNCHANGED <<cb, redis_client>>
    /\ UNCHANGED rt
    /\ UNCHANGED <<jobVars, subq, sseVars, extVars>>

\* time passes between registry calls
Pause ==
    /\ now + PauseSeconds <= MaxPauseTime
    /\ PassTime(now + PauseSeconds)
    /\ UNCHANGED <<active, channel, subq, pc, response, cleaned, nchunks, exc,
                   upserts, indexed>>
    /\ UNCHANGED <<sseVars, svcVars>>

\* --------------------------------- CircuitBreaker.call, await by await

\* how the wrapped function can end: it returns, it raises an exception of
\* expected_exception (Exception), or the task is cancelled inside it
\* (CancelledError is not an Exception)
FuncOutcomes == {"returned", "raised", "cancelled"}

\* what the callers of the breaker leave alone
GuardUnchanged ==
    /\ UNCHANGED <<redis_client, calls, rt, now>>
    /\ UNCHANGED <<jobs, expiry, active, channel, pc, response, cleaned,
                   nchunks, exc, upserts, indexed, subq>>
    /\ UNCHANGED <<sseVars, embedVars, rateVars, queryVars, fetches,
                   storeVars, subVars>>

\* call lines 35-40, open and too early: raise without awaiting func
CallFailFast(p) ==
    /\ cb_pc[p] = "idle"
    /\ cb_started < MaxBreakerCalls
    /\ FailsFast(cb)
    /\ cb_started' = cb_started + 1
    /\ cb_step' = [kind |-> "fail_fast", caller |-> p]
    /\ UNCHANGED <<cb, cb_pc, streak>>
    /\ GuardUnchanged

\* call lines 35-43: the state check, then func is awaited; the caller that
\* moved the breaker to half-open is the probe
CallInvoke(p) ==
    /\ cb_pc[p] = "idle"
    /\ cb_started < MaxBreakerCalls
    /\ ~FailsFast(cb)
    /\ cb_started' = cb_started + 1
    /\ cb' = Entered(cb)
    /\ cb_pc' = [cb_pc EXCEPT ![p] =
                    IF cb.state = "open" THEN "probe" ELSE "inside"]
    /\ cb_step' = [kind |-> "invoked", caller |-> p]
    /\ UNCHANGED streak
    /\ GuardUnchanged

\* call lines 43-49: func ends, _on_success or _on_failure
CallReturn(p) ==
    /\ cb_pc[p] \in {"inside", "probe"}
    /\ \E outcome \in FuncOutcomes :
        /\ cb' = CASE outcome = "returned" -> OnSuccess(cb)
                   [] outcome = "raised" -> OnFailure(cb)
                   [] OTHER -> cb
        /\ streak' = CASE outcome = "returned" -> 0
                       [] outcome = "raised" -> streak + 1
                       [] OTHER -> streak
        /\ cb_step' = [kind |-> outcome, caller |-> p]
    /\ cb_pc' = [cb_pc EXCEPT ![p] = "idle"]
    /\ UNCHANGED cb_started
    /\ GuardUnchanged

\* ------------------------------------------- subscribe_to_job_events

\* what pubsub.listen() can return: the confirmation of the subscribe, and
\* the messages published on the channel, with a JSON body or not
SubMessages ==
    {[type |-> "subscribe", data |-> "1"],
     [type |-> "message", data |-> "event"],
     [type |-> "message", data |-> "not json"]}

\* what the subscription leaves alone
SubUnchanged ==
    /\ UNCHANGED <<redis_client, cb, calls, rt>>
    /\ UNCHANGED <<jobs, expiry, active, channel, pc, response, cleaned,
                   nchunks, exc, upserts, indexed, subq>>
    /\ UNCHANGED <<sseVars, embedVars, rateVars, queryVars, fetches,
                   storeVars, guardVars>>

\* lines 232-241: subscribe, start_time = time.time(); redis answers the
\* subscribe with a confirmation message
SubOpen ==
    /\ sub_pc = "none"
    /\ sub_pc' = "listening"
    /\ start_time' = now
    /\ sub_in' = <<[type |-> "subscribe", data |-> "1"]>>
    /\ UNCHANGED <<sub_out, sub_sent, now>>
    /\ SubUnchanged

\* somebody publishes on the job's channel
SubPublish ==
    /\ sub_pc = "listening"
    /\ sub_sent < MaxSubMessages
    /\ sub_sent' = sub_sent + 1
    /\ \E data \in {"event", "not json"} :
          sub_in' = Append(sub_in, [type |-> "message", data |-> data])
    /\ UNCHANGED <<sub_pc, start_time, sub_out, now>>
    /\ SubUnchanged

\* lines 243-259, one turn of the loop: listen() returns the next message,
\* the timeout is checked, a JSON message is yielded and restarts the clock
SubRead ==
    /\ sub_pc = "listening"
    /\ sub_in # <<>>
    /\ sub_in' = Tail(sub_in)
    /\ LET message == Head(sub_in) IN
         IF now - start_time > SubscriptionTimeout
         THEN /\ sub_pc' = "closed"
              /\ UNCHANGED <<start_time, sub_out>>
         ELSE IF message.type = "message" /\ message.data = "event"
         THEN /\ sub_out' = Append(sub_out, now)
              /\ start_time' = now
              /\ UNCHANGED sub_pc
         ELSE UNCHANGED <<sub_pc, start_time, sub_out>>
    /\ UNCHANGED <<sub_sent, now>>
    /\ SubUnchanged

\* lines 261-277: listen() raises (the connection is lost), or the consumer
\* closes the generator; the finally clause closes pubsub and client
SubAbort ==
    /\ sub_pc = "listening"
    /\ sub_pc' = "closed"
    /\ UNCHANGED <<start_time, sub_in, sub_out, sub_sent, now>>
    /\ SubUnchanged

\* time passes while listen() waits
SubTick ==
    /\ now + SubTickSeconds <= MaxSubTime
    /\ PassTime(now + SubTickSeconds)
    /\ UNCHANGED <<active, channel, subq, pc, response, cleaned, nchunks, exc,
                   upserts, indexed>>
    /\ UNCHANGED <<sseVars, svcVars>>

\* ------------------------------------------------------- retry_with_backoff

\* how one invocation of the function under _fetch_content's try can end
FetchOutcomes ==
    {"ok", "ConnectError", "TimeoutException", "HTTPStatusError", "ValueError"}

\* the httpx.HTTPError subclasses among them
HTTPError == {"ConnectError", "TimeoutException", "HTTPStatusError"}

\* _fetch_content lines 49-58: what the call raises (or "ok")
FetchRaises(o) ==
    IF o = "ok" \/ o \in HTTPError THEN o ELSE "Exception"

\* DEFAULT_HTTP_RETRY.retry_on_exceptions
RetryOnExceptions == HTTPError \cup {"ConnectionError"}

\* calculate_delay(attempt) without the jitter
CalculateDelay(attempt) == Min(2 ^ attempt, 30)

NoRetry == [pc |-> "idle", max_retries |-> 0, attempt |-> 0,
            invoked |-> <<>>, delays |-> <<>>, result |-> None]

\* a call of the wrapped function under a policy with max_retries = n
RetryCall ==
    /\ rt.pc = "idle"
    /\ \E n \in 0..MaxRetryPolicy :
        rt' = [rt EXCEPT !.pc = "invoke", !.max_retries = n]
    /\ UNCHANGED <<redis_client, cb, calls>>
    /\ UNCHANGED <<jobVars, subq, sseVars, extVars>>

\* async_wrapper lines 68-73: the backoff sleep before a further attempt
RetrySleep ==
    /\ rt.pc = "sleep"
    /\ rt' = [rt EXCEPT !.pc = "invoke",
                        !.delays = Append(@, CalculateDelay(rt.attempt - 1))]
    /\ UNCHANGED <<redis_client, cb, calls>>
    /\ UNCHANGED <<jobVars, subq, sseVars, extVars>>

\* RetryInvoke going round once more after the last attempt has failed
RetryInvoke_OneMore ==
    /\ rt.pc = "invoke"
    /\ \E o \in FetchOutcomes :
        LET r   == FetchRaises(o)
            inv == Append(rt.invoked, r)
        IN  IF r = "ok"
            THEN rt' = [rt EXCEPT !.pc = "done", !.invoked = inv,
                                  !.result = "returned"]
            ELSE IF r \in RetryOnExceptions
            THEN IF rt.attempt <= rt.max_retries
                 THEN rt' = [rt EXCEPT !.pc = "sleep", !.invoked = inv,
                                       !.attempt = @ + 1]
                 ELSE rt' = [rt EXCEPT !.pc = "done", !.invoked = inv,
                                       !.result = r]
            ELSE rt' = [rt EXCEPT !.pc = "done", !.invoked = inv,
                                  !.result = r]
    /\ UNCHANGED <<redis_client, cb, calls>>
    /\ UNCHANGED <<jobVars, subq, sseVars, extVars>>

\* async_wrapper lines 75-101: one invocation of the wrapped function and
\* what the wrapper does with its outcome; result is "returned" or the
\* exception raised to the caller
RetryInvoke ==
    /\ rt.pc = "invoke"
    /\ \E o \in FetchOutcomes :
        LET r   == FetchRaises(o)
            inv == Append(rt.invoked, r)
        IN  IF r = "ok"
            THEN rt' = [rt EXCEPT !.pc = "done", !.invoked = inv,
                                  !.result = "returned"]
            ELSE IF r \in RetryOnExceptions
            THEN IF rt.attempt < rt.max_retries
                 THEN rt' = [rt EXCEPT !.pc = "sleep", !.invoked = inv,
                                       !.attempt = @ + 1]
                 ELSE rt' = [rt EXCEPT !.pc = "done", !.invoked = inv,
                                       !.result = r]
            ELSE rt' = [rt EXCEPT !.pc = "done", !.invoked = inv,
                                  !.result = r]
    /\ UNCHANGED <<redis_client, cb, calls>>
    /\ UNCHANGED <<jobVars, subq, sseVars, extVars>>

\* ---------------------------------------------------------- _fetch_content

\* the content of an ingest request: inline text (scheme None) or a URL
Contents ==
    [scheme : {None}, host : {None}] \cup
    [scheme : {"http", "https", "ftp"},
     host : {"localhost", "127.0.0.2", "10.0.0.5", "192.168.1.1",
             "172.16.0.1", "example.com"}]

\* line 27: content.startswith(("http://", "https://"))
IsHttpUrl(content) == content.scheme \in {"http", "https"}

\* _fetch_content lines 24-58, one invocation: an http(s) URL is requested
\* with client.get as it stands, anything else is returned as the content
FetchContent ==
    /\ Len(fetches) < MaxFetches
    /\ \E content \in Contents, o \in FetchOutcomes :
          /\ ~IsHttpUrl(content) => o = "ok"
          /\ fetches' = Append(fetches,
                 [content |-> content,
                  requested |-> IF IsHttpUrl(content) THEN content.host
                                ELSE None,
                  raised |-> FetchRaises(o)])
    /\ UNCHANGED <<jobVars, subq, sseVars, redis_client, cb, calls, rt>>
    /\ UNCHANGED <<embedVars, rateVars, queryVars, storeVars, guardVars, subVars>>

\* ---------------------------------------- the registry, await by await

\* a caller that is not inside a registry call; when a call returns, name,
\* job and result say what it was and what it returned
NoCall == [name |-> "none", pc |-> "done", job |-> 0, updates |-> <<>>,
           cur |-> <<>>, pub |-> 0, todo |-> {}, gone |-> 0, listed |-> <<>>,
           result |-> <<>>]

\* a redis key without a TTL does not expire
NoExpiry == MaxTime + MaxLateTime + 1

\* _publish_event line 218: redis publish on the job's channel
Publish(j, ev) == PublishEvent(j, ev)

\* _publish_event lines 221-225: lpush + ltrim + expire in one pipeline;
\* pub is the position of the event among the events published for the job.
\* The TTL of the list runs out in StoreOutlive.
PushHistory(j, ev, pub) ==
    history' = [history EXCEPT ![j] =
                  SubSeq(<<[event |-> ev, pub |-> pub]>> \o @, 1,
                         Min(Len(@) + 1, HistoryLimit))]

\* create_job line 130, first await of _publish_event: publish job_created;
\* a store failure here makes create_job raise
CreatePublishStep(j) ==
    /\ pc[j] = "stored"
    /\ \/ /\ Publish(j, JobCreatedEvent(j,
                  RedisJobState(IngestTimeoutSeconds, IngestMaxRetries)))
          /\ pc' = [pc EXCEPT ![j] = "published"]
          /\ UNCHANGED response
       \/ /\ pc' = [pc EXCEPT ![j] = "failed"]
          /\ response' = [response EXCEPT ![j] = 500]
          /\ UNCHANGED <<channel, subq>>
    /\ UNCHANGED <<jobs, expiry, active, cleaned, nchunks, exc, upserts,
                   indexed, now>>
    /\ UNCHANGED <<sseVars, redis_client, cb, calls, rt, embedVars, sideVars,
                   storeVars>>

\* second await of _publish_event, then create_job returns the job
CreateHistoryStep(j) ==
    /\ pc[j] = "published"
    /\ \/ /\ PushHistory(j, channel[j][Len(channel[j])], Len(channel[j]))
          /\ pc' = [pc EXCEPT ![j] = "spawned"]
          /\ response' = [response EXCEPT ![j] = 200]
       \/ /\ pc' = [pc EXCEPT ![j] = "failed"]
          /\ response' = [response EXCEPT ![j] = 500]
          /\ UNCHANGED history
    /\ UNCHANGED <<jobs, expiry, active, channel, subq, cleaned, nchunks, exc,
                   upserts, indexed, now>>
    /\ UNCHANGED <<sseVars, redis_client, cb, calls, rt, embedVars, sideVars,
                   reg_call, started, caller>>

\* create_job with each await of _publish_event a step of its own
CreateBySteps(j) ==
    \/ CreateCheck(j) \/ CreateStore(j)
    \/ CreatePublishStep(j) \/ CreateHistoryStep(j)

\* what every step of a caller leaves alone
CallerUnchanged ==
    UNCHANGED <<pc, response, cleaned, nchunks, exc, upserts, indexed, now,
                sseVars, redis_client, cb, calls, rt, embedVars, sideVars>>

\* patches the callers pass to update_job
StorePatches ==
    {[status |-> "success", message |-> "note"],
     [progress |-> 50, message |-> "note"]}

\* update_job lines 173-193: get_job, then the patch applied to the copy
\* that was read.  No record: return False.
UpdateCall(p) ==
    /\ reg_call[p].pc = "done"
    /\ started < MaxStoreOps
    /\ started' = started + 1
    /\ caller' = p
    /\ \E j \in 1..NumStoreJobs, updates \in StorePatches :
        /\ pc[j] = "spawned"
        /\ reg_call' = [reg_call EXCEPT ![p] =
                    IF JobExists(j)
                    THEN [NoCall EXCEPT !.name = "update", !.pc = "hset",
                                        !.job = j, !.updates = updates,
                                        !.cur = ApplyUpdates(jobs[j], updates)]
                    ELSE [NoCall EXCEPT !.name = "update", !.job = j,
                                        !.result = FALSE]]
    /\ UNCHANGED <<jobs, expiry, active, channel, subq, history>>
    /\ CallerUnchanged

\* update_job line 196: hset of the whole mapping; it creates the hash,
\* without a TTL, when the key has gone since it was read
UpdateHset(p) ==
    /\ reg_call[p].name = "update" /\ reg_call[p].pc = "hset"
    /\ jobs' = [k \in DOMAIN jobs \cup {reg_call[p].job} |->
                  IF k = reg_call[p].job THEN reg_call[p].cur ELSE jobs[k]]
    /\ expiry' = [k \in DOMAIN jobs \cup {reg_call[p].job} |->
                  IF k \in DOMAIN expiry THEN expiry[k] ELSE NoExpiry]
    /\ reg_call' = [reg_call EXCEPT ![p].pc = "publish", ![p].updates = <<>>]
    /\ UNCHANGED <<active, channel, subq, history, started, caller>>
    /\ CallerUnchanged

\* update_job line 199 into _publish_event line 218: publish job_updated;
\* when the store fails here update_job raises
UpdatePublish(p) ==
    /\ reg_call[p].name = "update" /\ reg_call[p].pc = "publish"
    /\ \/ /\ Publish(reg_call[p].job, JobUpdatedEvent(reg_call[p].job, reg_call[p].cur))
          /\ reg_call' = [reg_call EXCEPT ![p].pc = "history",
                              ![p].pub = Len(channel[reg_call[p].job]) + 1]
       \/ /\ reg_call' = [reg_call EXCEPT ![p] =
                    [NoCall EXCEPT !.name = "update", !.job = reg_call[p].job,
                                   !.result = "raised"]]
          /\ UNCHANGED <<channel, subq>>
    /\ UNCHANGED <<jobs, expiry, active, history, started, caller>>
    /\ CallerUnchanged

\* _publish_event lines 221-225, then update_job returns True
UpdateHistory(p) ==
    /\ reg_call[p].name = "update" /\ reg_call[p].pc = "history"
    /\ \/ /\ PushHistory(reg_call[p].job,
                         JobUpdatedEvent(reg_call[p].job, reg_call[p].cur), reg_call[p].pub)
          /\ reg_call' = [reg_call EXCEPT ![p] =
                    [NoCall EXCEPT !.name = "update", !.job = reg_call[p].job,
                                   !.result = TRUE]]
       \/ /\ reg_call' = [reg_call EXCEPT ![p] =
                    [NoCall EXCEPT !.name = "update", !.job = reg_call[p].job,
                                   !.result = "raised"]]
          /\ UNCHANGED history
    /\ UNCHANGED <<jobs, expiry, active, channel, subq, started, caller>>
    /\ CallerUnchanged

\* cleanup_job without the delete of the history list
CleanupJob_KeepHistory(p) ==
    /\ reg_call[p].pc = "done"
    /\ started < MaxStoreOps
    /\ started' = started + 1
    /\ caller' = p
    /\ \E j \in 1..NumStoreJobs :
        /\ jobs' = [k \in DOMAIN jobs \ {j} |-> jobs[k]]
        /\ expiry' = [k \in DOMAIN jobs \ {j} |-> expiry[k]]
        /\ active' = active \ {j}
        /\ reg_call' = [reg_call EXCEPT ![p] =
                    [NoCall EXCEPT !.name = "cleanup", !.job = j,
                                   !.result = JobExists(j)]]
    /\ UNCHANGED <<channel, subq, history>>
    /\ CallerUnchanged

\* cleanup_job: delete record, delete history, srem, in one pipeline;
\* returns whether the record was there
CleanupJob(p) ==
    /\ reg_call[p].pc = "done"
    /\ started < MaxStoreOps
    /\ started' = started + 1
    /\ caller' = p
    /\ \E j \in 1..NumStoreJobs :
        /\ jobs' = [k \in DOMAIN jobs \ {j} |-> jobs[k]]
        /\ expiry' = [k \in DOMAIN jobs \ {j} |-> expiry[k]]
        /\ history' = [history EXCEPT ![j] = <<>>]
        /\ active' = active \ {j}
        /\ reg_call' = [reg_call EXCEPT ![p] =
                    [NoCall EXCEPT !.name = "cleanup", !.job = j,
                                   !.result = JobExists(j)]]
    /\ UNCHANGED <<channel, subq>>
    /\ CallerUnchanged

\* sorted(jobs, key=updated_at, reverse=True): a stable sort
RECURSIVE SortedByUpdatedAt(_)
SortedByUpdatedAt(listed) ==
    IF listed = <<>> THEN <<>>
    ELSE LET last == listed[Len(listed)]
             rest == SortedByUpdatedAt(SubSeq(listed, 1, Len(listed) - 1))
             Before(x) == x.updated_at >= last.updated_at
             After(x) == x.updated_at < last.updated_at
         IN  SelectSeq(rest, Before) \o <<last>> \o SelectSeq(rest, After)

\* list_active_jobs as left by one more id examined
Listing(call, todo, listed) ==
    IF todo = {}
    THEN [NoCall EXCEPT !.name = "list",
                        !.result = SortedByUpdatedAt(listed)]
    ELSE [call EXCEPT !.pc = "get", !.todo = todo, !.listed = listed]

\* list_active_jobs lines 281-286: smembers and the ids to examine
ListCall(p) ==
    /\ reg_call[p].pc = "done"
    /\ started < MaxStoreOps
    /\ started' = started + 1
    /\ caller' = p
    /\ \E limit \in 1..NumStoreJobs, S \in SUBSET active :
        /\ Examined(S, limit)
        /\ reg_call' = [reg_call EXCEPT ![p] =
                    Listing([NoCall EXCEPT !.name = "list"], S, <<>>)]
    /\ UNCHANGED <<jobs, expiry, active, channel, subq, history>>
    /\ CallerUnchanged

\* list_active_jobs lines 287-289: get_job of the next id
ListGet(p) ==
    /\ reg_call[p].name = "list" /\ reg_call[p].pc = "get"
    /\ \E k \in reg_call[p].todo :
        reg_call' = [reg_call EXCEPT ![p] =
                 IF JobExists(k)
                 THEN Listing(reg_call[p], reg_call[p].todo \ {k},
                              Append(reg_call[p].listed,
                                     [job_id |-> k,
                                      updated_at |-> jobs[k].updated_at]))
                 ELSE [reg_call[p] EXCEPT !.pc = "srem", !.gone = k,
                                    !.todo = @ \ {k}]]
    /\ UNCHANGED <<jobs, expiry, active, channel, subq, history, started, caller>>
    /\ CallerUnchanged

\* list_active_jobs lines 290-292: srem of the id whose record was missing
ListSrem(p) ==
    /\ reg_call[p].name = "list" /\ reg_call[p].pc = "srem"
    /\ active' = active \ {reg_call[p].gone}
    /\ reg_call' = [reg_call EXCEPT ![p] = Listing(reg_call[p], reg_call[p].todo, reg_call[p].listed)]
    /\ UNCHANGED <<jobs, expiry, channel, subq, history, started, caller>>
    /\ CallerUnchanged

\* the calls a caller of the registry can make, and their steps
Caller(p) ==
    \/ UpdateCall(p) \/ UpdateHset(p) \/ UpdatePublish(p) \/ UpdateHistory(p)
    \/ CleanupJob(p)
    \/ ListCall(p) \/ ListGet(p) \/ ListSrem(p)

\* time passes between the steps of the callers
StoreTick ==
    /\ now + StoreTickSeconds <= MaxStoreTime
    /\ PassTime(now + StoreTickSeconds)
    /\ UNCHANGED <<active, channel, subq, pc, response, cleaned, nchunks, exc,
                   upserts, indexed>>
    /\ UNCHANGED <<sseVars, svcVars>>

\* time passes, long enough for the TTL of job:{id} and the TTL of every
\* history list to run out, between the steps of the callers
StoreOutlive ==
    /\ now <= MaxStoreTime
    /\ PassTime(now + LateSeconds)
    /\ history' = [j \in Jobs |->
                     IF LateSeconds >= HistoryTtl THEN <<>> ELSE history[j]]
    /\ UNCHANGED <<active, channel, subq, pc, response, cleaned, nchunks, exc,
                   upserts, indexed>>
    /\ UNCHANGED <<sseVars, redis_client, cb, calls, rt, embedVars, sideVars,
                   reg_call, started, caller>>

\* -------------------------------------------------------------- app.config

\* the environments the service can be started in: EMBEDDING_PROVIDER
\* (default "local") and OPENAI_API_KEY (default None)
EmbedEnvs == [provider : {"openai", "mock", "local"}, api_key : {None, "sk-key"}]

\* the service is started under one of these environments
Configure ==
    /\ jobs = <<>> /\ active = {}
    /\ \A j \in Jobs : pc[j] = "idle"
    /\ \E env \in EmbedEnvs : embed_env' = env
    /\ UNCHANGED <<embed_call, vectors, stored>>
    /\ UNCHANGED <<jobVars, subq, sseVars, redis_client, cb, calls, rt,
                   sideVars, storeVars>>

\* ---------------------------------------------------------- query_documents

\* the arguments of query_documents
QueryArgs ==
    [question : {"q1", "q2"}, retriever_type : {"dense", "bm25"}, top_k : {5}]

\* what retriever.search can do: raise, or return these sources
SearchOutcomes == {"raise", "no sources", "sources"}

\* line 83: _generate_answer is called without await, so the answer put
\* into the response is the coroutine object of this call and
\* llm_service.generate_answer never runs
QueryResponse(args, results, call) ==
    [answer |-> <<"coroutine", call>>, sources |-> results,
     retriever_used |-> args.retriever_type]

\* query_documents lines 70-130: create the retriever, search, build the
\* response; any exception is re-raised as "Query failed".  query_cache is
\* neither read nor written.
QueryDocuments ==
    /\ Len(queries) < MaxQueries
    /\ \E args \in QueryArgs, results \in SearchOutcomes :
          queries' = Append(queries,
              [args |-> args, at |-> now, ok |-> results # "raise",
               response |-> IF results = "raise" THEN None
                            ELSE QueryResponse(args, results,
                                               Len(queries) + 1)])
    /\ searches' = searches + 1
    /\ UNCHANGED <<generations, hit_count>>
    /\ UNCHANGED <<jobVars, subq, sseVars, redis_client, cb, calls, rt>>
    /\ UNCHANGED <<embedVars, rateVars, fetches, storeVars, guardVars, subVars>>

\* time passes between queries
QueryTick ==
    /\ now + QueryTickSeconds <= MaxQueryTime
    /\ PassTime(now + QueryTickSeconds)
    /\ UNCHANGED <<active, channel, subq, pc, response, cleaned, nchunks, exc,
                   upserts, indexed>>
    /\ UNCHANGED <<sseVars, svcVars>>

\* ------------------------------------------------------ SecurityMiddleware

\* SecurityMiddleware.blocked_ips: nothing ever adds to it
blocked_ips == {}

\* the requests: their X-Forwarded-For addresses, X-Real-IP, peer address
\* (None when the server gives no client) and whether Content-Length
\* exceeds max_request_size
Requests ==
    [forwarded_for : {<<>>, <<"ip1", "ip2">>}, real_ip : {None, "ip2"},
     host : {None, "ip1"}, oversize : BOOLEAN]

\* _get_client_ip
GetClientIp(request) ==
    IF request.forwarded_for # <<>> THEN request.forwarded_for[1]
    ELSE IF request.real_ip # None THEN request.real_ip
    ELSE IF request.host # None THEN request.host
    ELSE "unknown"

\* _check_rate_limit, "Clean old entries": the timestamps of the window
FreshTimestamps(client_ip) ==
    LET InWindow(timestamp) == timestamp > now - rate_limit_window
    IN  IF client_ip \in DOMAIN request_counts
        THEN SelectSeq(request_counts[client_ip], InWindow)
        ELSE <<>>

\* _check_rate_limit that lets a request through at the limit too
WithinRateLimit_AtLimit(client_ip) ==
    \/ client_ip = "unknown"
    \/ Len(FreshTimestamps(client_ip)) <= rate_limit_requests

\* _check_rate_limit: its return value
WithinRateLimit(client_ip) ==
    \/ client_ip = "unknown"
    \/ Len(FreshTimestamps(client_ip)) < rate_limit_requests

\* _check_rate_limit: what it does to request_counts
CheckRateLimit(client_ip) ==
    IF client_ip = "unknown" THEN UNCHANGED request_counts
    ELSE request_counts' =
           [k \in DOMAIN request_counts \cup {client_ip} |->
              IF k # client_ip THEN request_counts[k]
              ELSE IF WithinRateLimit(client_ip)
                   THEN Append(FreshTimestamps(client_ip), now)
                   ELSE FreshTimestamps(client_ip)]

\* dispatch: 403, 429, 413, or the request is passed on (call_next), here 200
DispatchStatus(request) ==
    IF GetClientIp(request) \in blocked_ips THEN 403
    ELSE IF ~WithinRateLimit(GetClientIp(request)) THEN 429
    ELSE IF request.oversize THEN 413
    ELSE 200

Dispatch ==
    /\ Len(served) < MaxRequests
    /\ \E request \in Requests :
          /\ IF GetClientIp(request) \in blocked_ips
             THEN UNCHANGED request_counts
             ELSE CheckRateLimit(GetClientIp(request))
          /\ served' = Append(served, [client_ip |-> GetClientIp(request),
                                       at |-> now,
                                       status |-> DispatchStatus(request)])
    /\ UNCHANGED <<jobVars, subq, sseVars, redis_client, cb, calls, rt>>
    /\ UNCHANGED <<embedVars, queryVars, fetches, storeVars, guardVars, subVars>>

\* time passes between requests
RateTick ==
    /\ now + RateTickSeconds <= MaxRateTime
    /\ PassTime(now + RateTickSeconds)
    /\ UNCHANGED <<active, channel, subq, pc, response, cleaned, nchunks, exc,
                   upserts, indexed>>
    /\ UNCHANGED <<sseVars, svcVars>>

\* ------------------------------------------------------------- time, TTL

Tick ==
    /\ now + TickSeconds <= MaxTime
    /\ PassTime(now + TickSeconds)
    /\ UNCHANGED <<active, channel, subq, pc, response, cleaned, nchunks, exc,
                   upserts, indexed>>
    /\ UNCHANGED <<sseVars, svcVars>>

\* time passes, long enough for the TTL of job:{id} to run out
Outlive ==
    /\ now + LateSeconds <= MaxLateTime
    /\ PassTime(now + LateSeconds)
    /\ UNCHANGED <<active, channel, subq, pc, response, cleaned, nchunks, exc,
                   upserts, indexed>>
    /\ UNCHANGED <<sseVars, svcVars>>

\* ------------------------------------------------------------ specification

Init ==
    /\ jobs = <<>>
    /\ expiry = <<>>
    /\ active = {}
    /\ channel = [j \in Jobs |-> <<>>]
    /\ pc = [j \in Jobs |-> "idle"]
    /\ response = [j \in Jobs |-> 0]
    /\ cleaned = [j \in Jobs |-> "unset"]
    /\ nchunks = [j \in Jobs |-> 0]
    /\ exc = [j \in Jobs |-> None]
    /\ upserts = [j \in Jobs |-> 0]
    /\ indexed = [j \in Jobs |-> 0]
    /\ now = 0
    /\ subq = [c \in Conns |-> <<>>]
    /\ sse_conn = <<>>
    /\ connections = {}
    /\ job_connections = <<>>
    /\ event_history = <<>>
    /\ next_evt = 0
    /\ spc = [c \in Conns |-> "none"]
    /\ hdr = [c \in Conns |-> NoId]
    /\ missed = [c \in Conns |-> <<>>]
    /\ ridx = [c \in Conns |-> 0]
    /\ out = [c \in Conns |-> <<>>]
    /\ hb_due = [c \in Conns |-> NoTimer]
    /\ sweep_due = 0
    /\ fault = [c \in Conns |-> None]
    /\ auth = [c \in Conns |-> None]
    /\ redis_client = None
    /\ cb = NewBreaker
    /\ calls = <<>>
    /\ rt = NoRetry
    /\ embed_env = [provider |-> "local", api_key |-> None]
    /\ embed_call = [j \in Jobs |-> "none"]
    /\ vectors = [j \in Jobs |-> "none"]
    /\ stored = [j \in Jobs |-> "none"]
    /\ queries = <<>>
    /\ searches = 0
    /\ generations = 0
    /\ hit_count = 0
    /\ fetches = <<>>
    /\ cb_pc = [p \in Callers |-> "idle"]
    /\ cb_step = [kind |-> "none", caller |-> 0]
    /\ cb_started = 0
    /\ streak = 0
    /\ sub_pc = "none"
    /\ start_time = 0
    /\ sub_in = <<>>
    /\ sub_out = <<>>
    /\ sub_sent = 0
    /\ history = [j \in Jobs |-> <<>>]
    /\ reg_call = [p \in Callers |-> NoCall]
    /\ started = 0
    /\ caller = 0
    /\ request_counts = <<>>
    /\ served = <<>>

Create(j) == CreateCheck(j) \/ CreateStore(j) \/ CreatePublish(j)

\* the service: ingest requests and their workers
Next == \E j \in 1..NumJobs : Create(j) \/ Worker(j)

Spec == Init /\ [][Next]_vars

\* every spawned worker task is eventually scheduled by the event loop
FairSpec == Spec /\ \A j \in 1..NumJobs : WF_vars(Worker(j))

\* the same service under more ingest requests than the admission sample
AdmitNext == \E j \in 1..NumAdmitJobs : Create(j) \/ Worker(j)

AdmitSpec == Init /\ [][AdmitNext]_vars

\* the service with the clock running and redis key expiry
TimedNext ==
    \/ Tick
    \/ \E j \in 1..NumTimedJobs : Create(j) \/ Worker(j)

TimedSpec == Init /\ [][TimedNext]_vars

\* the registry driven through its public methods, no worker attached
ApiNext == \E j \in 1..NumApiJobs : Create(j) \/ ApiUpdate(j)

ApiSpec == Init /\ [][ApiNext]_vars

\* ingest jobs with clients streaming their progress
SseNext ==
    \/ \E j \in 1..NumSseJobs : Create(j) \/ Worker(j)
    \/ \E c \in 1..NumLiveConns : SoloStream(c)

SseSpec == Init /\ [][SseNext]_vars

\* the server resumes a stream generator after each event it has sent
SseFairSpec == SseSpec /\ \A c \in 1..NumLiveConns : WF_vars(StreamFinish(c))

\* clients opening, dropping and reopening streams on a job whose worker
\* has not been scheduled yet
ReplayNext ==
    \/ \E j \in 1..NumSseJobs : Create(j)
    \/ \E c \in 1..NumConns :
          \/ OpenStream(c) \/ StreamStart(c) \/ StreamResume(c)
          \/ StreamReplay(c) \/ StreamAuth(c) \/ StreamSnapshot(c)
          \/ StreamSubscribe(c) \/ StreamDisconnect(c)

ReplaySpec == Init /\ [][ReplayNext]_vars

\* concurrent streams whose clients stay connected, on jobs whose worker
\* has not been scheduled yet and whose records can outlive their redis TTL
OrderNext ==
    \/ Outlive
    \/ \E j \in 1..NumSseJobs : Create(j)
    \/ \E c \in 1..NumConns :
          \/ OpenStream(c) \/ StreamStart(c) \/ StreamResume(c)
          \/ StreamReplay(c) \/ StreamAuth(c) \/ StreamSnapshot(c)
          \/ StreamSubscribe(c) \/ StreamDeliver(c)

OrderSpec == Init /\ [][OrderNext]_vars

\* streamed ingest jobs with store commands of the stream failing
FaultNext ==
    \/ \E j \in 1..NumSseJobs : Create(j) \/ Worker(j)
    \/ \E c \in 1..NumLiveConns : SoloStream(c) \/ StreamFault(c)

FaultSpec == Init /\ [][FaultNext]_vars

\* streams on a job whose worker has not been scheduled yet, with the
\* heartbeat tasks, the sweep and the clock
IdleNext ==
    \/ Wait
    \/ Sweep
    \/ \E j \in 1..NumSseJobs : Create(j)
    \/ \E c \in 1..NumLiveConns :
          \/ OpenStream(c) \/ StreamStart(c) \/ StreamResume(c)
          \/ StreamAuth(c) \/ StreamSnapshot(c)
          \/ StreamSubscribe(c) \/ StreamDisconnect(c) \/ Heartbeat(c)

IdleSpec == Init /\ [][IdleNext]_vars

\* a stream of a job that is ingested, ending by a terminal event, a
\* disconnect or a failure, while further clients connect and leave
ConnNext ==
    \/ \E j \in 1..NumSseJobs : Create(j) \/ Worker(j)
    \/ \E c \in 1..NumLiveConns : SoloStream(c) \/ StreamFault(c)
    \/ \E c \in (NumLiveConns + 1)..NumConns :
          OpenStream(c) \/ StreamStart(c) \/ StreamDisconnect(c)

ConnSpec == Init /\ [][ConnNext]_vars

\* registry methods called against a store that may fail
BreakerNext == RegistryCall \/ Pause

BreakerSpec == Init /\ [][BreakerNext]_vars

\* overlapping calls through one circuit breaker
CircuitNext ==
    \/ Pause
    \/ \E p \in Callers : CallFailFast(p) \/ CallInvoke(p) \/ CallReturn(p)

CircuitSpec == Init /\ [][CircuitNext]_vars

\* one subscription to a job's channel
SubNext == SubOpen \/ SubPublish \/ SubRead \/ SubAbort \/ SubTick

SubSpec == Init /\ [][SubNext]_vars

\* the event loop resumes the generator whenever listen() has a message,
\* and time passes; nobody is bound to publish or to drop the connection
SubFairSpec == SubSpec /\ WF_vars(SubRead) /\ WF_vars(SubTick)

\* one call of the retry wrapper around _fetch_content
RetryNext == RetryCall \/ RetrySleep \/ RetryInvoke

RetrySpec == Init /\ [][RetryNext]_vars

\* ingest jobs under every embedding configuration
EmbedNext == Configure \/ \E j \in 1..NumEmbedJobs : Create(j) \/ Worker(j)

EmbedSpec == Init /\ [][EmbedNext]_vars

\* queries, repeated or not, within and beyond the cache TTL
QueryNext == QueryDocuments \/ QueryTick

QuerySpec == Init /\ [][QueryNext]_vars

\* the fetch stage under every content
FetchNext == FetchContent

FetchSpec == Init /\ [][FetchNext]_vars

\* the registry under concurrent callers
StoreNext ==
    \/ StoreTick \/ StoreOutlive
    \/ \E j \in 1..NumStoreJobs : CreateBySteps(j)
    \/ \E p \in Callers : Caller(p)

StoreSpec == Init /\ [][StoreNext]_vars

\* the rate limiter under requests of several clients
RateNext == Dispatch \/ RateTick

RateSpec == Init /\ [][RateNext]_vars

\* ------------------------------------------------------------------ claims

Status(j) == jobs[j].status

\* jobs whose stored status is queued or running
ActiveJobs == {j \in DOMAIN jobs : Status(j) \in NonTerminal}

\* C1: the number of jobs in status queued or running never exceeds
\* max_concurrent_jobs, however many ingest requests run concurrently.
C1_AdmissionLimit == Cardinality(ActiveJobs) <= max_concurrent_jobs

\* C2: a create call made while at least max_concurrent_jobs jobs are queued
\* or running is denied and writes no record, no active-set entry, no event.
C2_DeniedWhenFull ==
    [][\A j \in Jobs :
        (/\ pc[j] = "idle" /\ pc'[j] # "idle"
         /\ Cardinality(ActiveJobs) >= max_concurrent_jobs)
        => (/\ pc'[j] = "denied"
            /\ jobs' = jobs
            /\ active' \subseteq active
            /\ channel' = channel)]_vars

Rank(st) == CASE st = "queued" -> 0 [] st = "running" -> 1 [] OTHER -> 2

MonotonicPair(a, b) ==
    /\ Rank(a.status) <= Rank(b.status)
    /\ (a.type = "job_updated" /\ b.type = "job_updated")
          => a.progress <= b.progress

\* C3: per job, the published job_created / job_updated events never move
\* backwards in status rank (queued < running < terminal) nor in progress.
C3_MonotonicEvents ==
    \A j \in Jobs : \A i \in 1..(Len(channel[j]) - 1) :
        MonotonicPair(channel[j][i], channel[j][i + 1])

C3_Witness ==
    \E j \in Jobs :
        /\ Len(channel[j]) >= 4
        /\ channel[j][1].type = "job_created"
        /\ channel[j][Len(channel[j])].status = "error"
        /\ channel[j][Len(channel[j])].progress >= 20

\* C4: once the stored status of a job is terminal, an update never makes it
\* non-terminal and never publishes a job_updated event with a non-terminal
\* status.
C4_TerminalStays ==
    [][\A j \in Jobs :
        (JobExists(j) /\ Status(j) \in Terminal /\ j \in DOMAIN jobs')
        => (/\ jobs'[j].status \in Terminal
            /\ channel'[j] # channel[j]
                 => channel'[j][Len(channel'[j])].status \in Terminal)]_vars

StageOf(e) == <<e.stage, e.progress, e.status>>

SuccessStages ==
    << <<"fetching", 10, "running">>, <<"chunking", 20, "running">>,
       <<"embedding", 40, "running">>, <<"storing", 70, "running">>,
       <<"indexing", 85, "running">>, <<"completed", 100, "success">> >>

\* the job_updated events of a job, in publication order
WorkerEvents(j) == SelectSeq(channel[j], LAMBDA e : e.type = "job_updated")

\* C5: a job that ends in status success has published exactly the six
\* stage updates fetching/10 .. indexing/85 (running) and completed/100
\* (success), in this order.
C5_SuccessStages ==
    \A j \in Jobs :
        (pc[j] = "done" /\ JobExists(j) /\ Status(j) = "success")
        => [i \in 1..Len(WorkerEvents(j)) |-> StageOf(WorkerEvents(j)[i])]
             = SuccessStages

C5_Witness ==
    \E j \in Jobs : pc[j] = "done" /\ JobExists(j) /\ Status(j) = "success"

C8_TimeoutTerminates ==
    [][\A j \in Jobs :
        (/\ JobExists(j) /\ Status(j) \in NonTerminal
         /\ now - jobs[j].created_at >= jobs[j].timeout_seconds
         /\ j \in DOMAIN jobs' /\ jobs'[j] # jobs[j])
        => (jobs'[j].status = "error" /\ jobs'[j].message = "timeout")]_vars

\* the events of the job's history that were not emitted on stream c itself
HistoryOfOthers(c) ==
    SelectSeq(event_history[sse_conn[c].job_id],
              LAMBDA e : e.connection_id # c)

IdsOf(h) == {h[i].id : i \in 1..Len(h)}

\* the events that follow the first occurrence of id x in h
EventsAfter(h, x) ==
    LET at == {i \in 1..Len(h) : h[i].id = x} IN
    SubSeq(h, (CHOOSE i \in at : \A k \in at : i <= k) + 1, Len(h))

\* stream c resumes after its connection_start and fixes its replay block
FixesReplay(c) == spc[c] = "started" /\ spc'[c] \in {"replay", "source"}

\* C9: a stream opened with Last-Event-ID = X, X in the job's event history,
\* replays exactly the events that follow X in that history, in history
\* order, starting with the event immediately after X.
C9_ReplayAfterLastEventId ==
    [][\A c \in Conns :
        (FixesReplay(c) /\ hdr[c] \in IdsOf(HistoryOfOthers(c)))
        => missed'[c] = EventsAfter(HistoryOfOthers(c), hdr[c])]_vars

\* C10: a stream opened without Last-Event-ID, or with one that is not in
\* the job's event history, emits no replay event.
C10_NoReplayWithoutId ==
    [][\A c \in Conns :
        (/\ FixesReplay(c)
         /\ \/ hdr[c] = NoId
            \/ hdr[c] \notin IdsOf(event_history[sse_conn[c].job_id]))
        => (missed'[c] = <<>> /\ out'[c] = out[c])]_vars

\* the event is a job_updated with status success, error or cancelled
TerminalUpdate(e) == e.event_type = "job_updated" /\ e.data.status \in Terminal

DeliveredTerminal(c) ==
    \E i \in 1..Len(out[c]) : TerminalUpdate(out[c][i])

\* C11: on a job stream a terminal job_updated event is the last event
\* yielded; once it is yielded the stream no longer listens to the job's
\* channel, and it eventually closes with its connection record removed.
C11_ClosesOnTerminal ==
    /\ [](\A c \in Conns : \A i \in 1..Len(out[c]) :
            TerminalUpdate(out[c][i])
            => (/\ i = Len(out[c])
                /\ spc[c] \in {"closing", "closed"}
                /\ c \notin Subscribers(sse_conn[c].job_id)))
    /\ \A c \in Conns :
          DeliveredTerminal(c) ~> (spc[c] = "closed" /\ c \notin connections)

C11_Witness ==
    \E c \in Conns :
        /\ DeliveredTerminal(c)
        /\ Len(out[c]) >= 5
        /\ spc[c] = "closed"
        /\ c \notin connections

\* C12: every job_updated event published on a job's channel once a stream
\* of that job has read its job_status snapshot is queued for delivery on
\* that stream.
C12_NoEventLost ==
    [][\A c \in DOMAIN sse_conn :
        LET j == sse_conn[c].job_id IN
        (/\ spc[c] \in {"snapshot", "listening"}
         /\ Len(channel'[j]) = Len(channel[j]) + 1
         /\ channel'[j][Len(channel'[j])].type = "job_updated")
        => subq'[c] = Append(subq[c], channel'[j][Len(channel'[j])])]_vars

\* positions of the events of type t among those yielded on stream c
PositionsOf(c, T) == {i \in 1..Len(out[c]) : out[c][i].event_type \in T}

\* the order of the events of a stream: connection_start first, replays
\* before the snapshot, the snapshot before the live job events, and no
\* second snapshot
StreamOrder(c) ==
    /\ out[c] # <<>> => out[c][1].data.type = "connection_start"
    /\ \A i \in PositionsOf(c, {"replay"}) :
          \A k \in PositionsOf(c, {"job_status"}) : i < k
    /\ \A k \in PositionsOf(c, {"job_status"}) :
          \A i \in PositionsOf(c, {"job_created", "job_updated"}) : k < i
    /\ Cardinality(PositionsOf(c, {"job_status"})) <= 1

\* the stream has gone through its snapshot step and is still open
PastSnapshot(c) == spc[c] \in {"snapshot", "listening", "closing"}

\* C13 as stated: on every job stream the first event is connection_start,
\* replays precede the job_status snapshot, the snapshot precedes the live
\* job events, and exactly one snapshot is emitted.
C13_OneSnapshotInOrder ==
    \A c \in Conns :
        /\ StreamOrder(c)
        /\ PastSnapshot(c)
             => Cardinality(PositionsOf(c, {"job_status"})) = 1

\* C13, amended: the same order, with at most one snapshot, and exactly
\* one when the job record still exists (it has not expired since the
\* stream was opened).
C13_OneSnapshotWhileStored ==
    \A c \in Conns :
        /\ StreamOrder(c)
        /\ (PastSnapshot(c) /\ JobExists(sse_conn[c].job_id))
             => Cardinality(PositionsOf(c, {"job_status"})) = 1

C13_Witness ==
    \E c \in Conns :
        /\ PositionsOf(c, {"replay"}) # {}
        /\ PositionsOf(c, {"job_status"}) # {}
        /\ PositionsOf(c, {"job_created", "job_updated"}) # {}

\* since when nothing has been delivered to the client of stream c
LastDelivery(c) ==
    IF out[c] = <<>> THEN sse_conn[c].created_at
    ELSE out[c][Len(out[c])].timestamp

\* the sleep of the heartbeat task of stream c ends in this step and the
\* stream stays open
HeartbeatWakes(c) ==
    /\ c \in connections /\ c \in connections'
    /\ hb_due[c] # NoTimer /\ now >= hb_due[c]
    /\ hb_due'[c] # hb_due[c]

\* C14: when the heartbeat sleep of an open stream that waits for job
\* events ends and no event has been delivered on the stream for
\* heartbeat_interval seconds, an event of type heartbeat is yielded on it.
C14_HeartbeatEvents ==
    [][\A c \in Conns :
        (/\ HeartbeatWakes(c)
         /\ spc[c] = "listening"
         /\ now - LastDelivery(c) >= heartbeat_interval)
        => (/\ Len(out'[c]) = Len(out[c]) + 1
            /\ out'[c][Len(out'[c])].event_type = "heartbeat")]_vars

\* C15: a round of the periodic sweep removes from the connection map
\* every connection of a stream waiting for job events on which no event
\* has been delivered for more than 3 x heartbeat_interval seconds.
C15_StaleRemoved ==
    [][\A c \in connections :
        (/\ sweep_due' # sweep_due
         /\ spc[c] = "listening"
         /\ now - LastDelivery(c) > StaleFactor * heartbeat_interval)
        => c \notin connections']_vars

\* C16: a stream that ends because of an internal failure has yielded a
\* stream_error event as its last event.
C16_StreamErrorLast ==
    \A c \in Conns :
        (fault[c] # None /\ spc[c] \in {"closing", "failing", "closed"})
        => (/\ out[c] # <<>>
            /\ out[c][Len(out[c])].data.type = "stream_error")

ErrorsBefore(i, n) ==
    /\ i > n
    /\ \A k \in (i - n)..(i - 1) : calls[k].result = "store_error"

\* C18: a registry call made after failure_threshold consecutive store
\* errors, less than recovery_timeout seconds after the last of them, fails
\* fast without issuing a store command.
C18_FailsFastAfterErrors ==
    \A i \in 1..Len(calls) :
        (/\ ErrorsBefore(i, failure_threshold)
         /\ calls[i].at - calls[i - 1].at < recovery_timeout)
        => (calls[i].result = "breaker_open" /\ calls[i].commands = 0)

\* C19: a call under a policy with max_retries = n never invokes the
\* function more than n + 1 times; when every invocation fails with a
\* retryable error there are exactly n + 1 invocations and the last error
\* is raised; when an invocation succeeds it is the last one and the call
\* returns.
C19_RetryCount ==
    LET n == Len(rt.invoked) IN
    /\ n <= rt.max_retries + 1
    /\ \A i \in 1..n : rt.invoked[i] = "ok" => (i = n /\ rt.pc = "done")
    /\ rt.pc = "done"
         => /\ n >= 1
            /\ (rt.invoked[n] = "ok") <=> (rt.result = "returned")
            /\ (\A i \in 1..n : rt.invoked[i] \in RetryOnExceptions)
                 => (n = rt.max_retries + 1 /\ rt.result = rt.invoked[n])

C19_Witness ==
    /\ rt.pc = "done"
    /\ rt.max_retries = HttpMaxRetries
    /\ Len(rt.invoked) = HttpMaxRetries + 1
    /\ rt.result = "TimeoutException"
    /\ Len(rt.delays) = HttpMaxRetries

\* C20: the fetch is invoked again only after a transport or timeout
\* error: after an error-status response or any other exception there is
\* no backoff sleep and no further invocation.
C20_RetryOnlyTransport ==
    \A i \in 1..(Len(rt.invoked) - 1) :
        rt.invoked[i] \in {"ConnectError", "TimeoutException"}

\* requests of client_ip that were passed on to a handler at a time in (t, t + w]
PassedOn(client_ip, t, w) ==
    {i \in DOMAIN served : /\ served[i].client_ip = client_ip
                           /\ served[i].status \notin {403, 429, 413}
                           /\ t < served[i].at /\ served[i].at <= t + w}

\* C21: for every client IP and every interval of rate_limit_window
\* seconds, at most rate_limit_requests requests of that IP are passed on to
\* a handler; a request arriving when that many have been passed on within
\* the window is answered 429.
C21_RateLimit ==
    \A client_ip \in {"ip1", "ip2"} :
        /\ \A t \in (0 - rate_limit_window)..MaxRateTime :
              Cardinality(PassedOn(client_ip, t, rate_limit_window))
                  <= rate_limit_requests
        /\ \A i \in DOMAIN served :
              (/\ served[i].client_ip = client_ip
               /\ Cardinality({k \in PassedOn(client_ip,
                                     served[i].at - rate_limit_window,
                                     rate_limit_window) : k < i})
                     >= rate_limit_requests)
              => served[i].status = 429

\* a client is refused at the limit and is served again once the window
\* has moved on
C21_Witness ==
    \E i, k \in DOMAIN served :
        /\ i < k
        /\ served[i].client_ip = served[k].client_ip
        /\ served[i].status = 429
        /\ served[k].status = 200

\* the call of job j to the embedding provider failed
ProviderFailed(j) == embed_call[j] \in {"ImportError", "APIError"}

\* C23: when the call to the embedding provider fails and the configured
\* provider is not mock, no random vectors are returned to the pipeline or
\* stored.
C23_NoSilentRandom ==
    \A j \in Jobs :
        (ProviderFailed(j) /\ embed_env.provider # "mock")
            => (vectors[j] # "random" /\ stored[j] # "random")

\* call i of query_documents succeeded and the call made in this step
\* repeats it within the cache TTL
RepeatsWithinTtl(i) ==
    /\ Len(queries') = Len(queries) + 1
    /\ queries[i].ok
    /\ queries'[Len(queries')].args = queries[i].args
    /\ now - queries[i].at < QueryCacheTtl

\* C22: a query repeated with the same question, retriever and top_k within
\* the cache TTL of a successful one returns the same response, raises the
\* cache hit counter by exactly 1 and invokes neither the retriever nor
\* the LLM again.
C22_SecondFromCache ==
    [][\A i \in DOMAIN queries :
          RepeatsWithinTtl(i) =>
              /\ queries'[Len(queries')].response = queries[i].response
              /\ hit_count' = hit_count + 1
              /\ searches' = searches
              /\ generations' = generations]_vars

\* hosts named localhost, 127.*, 10.*, 192.168.* or 172.16.*
PrivateHosts ==
    {"localhost", "127.0.0.2", "10.0.0.5", "192.168.1.1", "172.16.0.1"}

\* C24: the fetch stage never issues an HTTP request to a host that is
\* localhost, 127.*, 10.*, 192.168.* or 172.16.*.
C24_NoPrivateFetch ==
    \A i \in DOMAIN fetches : fetches[i].requested \notin PrivateHosts

\* caller p makes a call of cleanup_job in this step
CleanupStep(p) ==
    /\ started' = started + 1
    /\ caller' = p
    /\ reg_call'[p].name = "cleanup"

\* C25: after cleanup(job_id) the job's record, its event history and its
\* active-set membership are absent, the records, histories and memberships
\* of all other jobs are unchanged, and the call returns true exactly when
\* the record existed.
C25_CleanupFrame ==
    [][\A p \in Callers :
         CleanupStep(p) =>
            LET j == reg_call'[p].job IN
            /\ j \notin DOMAIN jobs'
            /\ history'[j] = <<>>
            /\ j \notin active'
            /\ reg_call'[p].result = (j \in DOMAIN jobs)
            /\ \A k \in Jobs \ {j} :
                 /\ (k \in DOMAIN jobs') = (k \in DOMAIN jobs)
                 /\ k \in DOMAIN jobs => jobs'[k] = jobs[k]
                 /\ history'[k] = history[k]
                 /\ (k \in active') = (k \in active)]_vars

\* a cleanup has removed a job with a record and a history and returned
\* true, another job keeps its record, history and membership
C25_Witness ==
    \E p \in Callers, k \in Jobs :
        /\ reg_call[p].name = "cleanup"
        /\ reg_call[p].result = TRUE
        /\ k # reg_call[p].job
        /\ reg_call[p].job \notin DOMAIN jobs
        /\ Len(channel[reg_call[p].job]) > 0
        /\ history[reg_call[p].job] = <<>>
        /\ JobExists(k) /\ k \in active /\ history[k] # <<>>

\* the jobs a call of list_active_jobs has collected, or returns
Collected(call) == IF call.pc = "done" THEN call.result ELSE call.listed

\* caller p is inside list_active_jobs and takes a step of it
ListStep(p) ==
    /\ reg_call[p].name = "list"
    /\ reg_call[p].pc \in {"get", "srem"}
    /\ \/ reg_call'[p].pc # reg_call[p].pc
       \/ reg_call'[p].todo # reg_call[p].todo

\* C26: list_active returns only jobs whose record exists, ordered by
\* updated_at descending, removes from the active set every examined id
\* whose record is missing, and leaves in the active set every id whose
\* record exists.
C26_ListFrame ==
    [][\A p \in Callers :
         ListStep(p) =>
            /\ Len(Collected(reg_call'[p])) > Len(Collected(reg_call[p]))
                 => \E k \in reg_call[p].todo \cap DOMAIN jobs :
                       reg_call'[p].todo = reg_call[p].todo \ {k}
            /\ reg_call'[p].pc = "done"
                 => \A a, b \in DOMAIN reg_call'[p].result :
                       a < b => reg_call'[p].result[a].updated_at
                                  >= reg_call'[p].result[b].updated_at
            /\ \A k \in reg_call[p].todo \ reg_call'[p].todo :
                 k \notin DOMAIN jobs
                    => (reg_call'[p].pc = "srem" /\ reg_call'[p].gone = k)
            /\ reg_call[p].pc = "srem" => reg_call[p].gone \notin active'
            /\ \A k \in active \cap DOMAIN jobs : k \in active']_vars

\* C27: in no reachable state does a stored record reflect an update for
\* which no job_updated event has been published.
C27_UpdateAtomic ==
    \A j \in DOMAIN jobs :
        jobs[j].message # None
            => \E i \in DOMAIN channel[j] :
                  /\ channel[j][i].type = "job_updated"
                  /\ channel[j][i] = JobUpdatedEvent(j, jobs[j])

\* the positions, among the events published for job j, of the events in
\* its history list, newest first
HistoryPubs(j) == [i \in DOMAIN history[j] |-> history[j][i].pub]

\* the history of job j has not been deleted by a cleanup, and its TTL has
\* not run out
Kept(j) == JobExists(j) /\ j \in active /\ now < HistoryTtl

\* C28: every event published on a job's channel is in the job's history
\* list, unless the list has been trimmed since.
C28_PublishedInHistory ==
    \A j \in Jobs :
        Kept(j) =>
            \A k \in DOMAIN channel[j] :
                \/ \E i \in DOMAIN history[j] : history[j][i].pub = k
                \/ Len(history[j]) = HistoryLimit

\* C29: the events of a job are in its history list in the order in which
\* they were published.
C29_HistoryInPublishOrder ==
    \A j \in Jobs :
        \A a, b \in DOMAIN history[j] :
            a < b => history[j][a].pub > history[j][b].pub

\* no call is between its publish and its history append for job j
Quiet(j) ==
    /\ pc[j] # "published"
    /\ \A p \in Callers :
          ~(reg_call[p].name = "update" /\ reg_call[p].pc = "history"
            /\ reg_call[p].job = j)

\* C30: the history list of a job holds at most 100 (here HistoryLimit)
\* events, and once the publishes made so far are over these are the most
\* recently published ones.
C30_HistoryBounded ==
    \A j \in Jobs :
        /\ Len(history[j]) <= HistoryLimit
        /\ (Kept(j) /\ Quiet(j)) =>
              HistoryPubs(j) =
                 [i \in 1..Min(HistoryLimit, Len(channel[j])) |->
                     Len(channel[j]) + 1 - i]

\* a call of CircuitBreaker.call begins in this step
CallBegins == cb_started' = cb_started + 1

\* the wrapped function of caller p ends in this step
CallEnds(p) == cb_pc[p] \in {"inside", "probe"} /\ cb_pc'[p] = "idle"

\* C31: the breaker leaves closed for open exactly when failure_threshold
\* consecutive wrapped calls have failed; a successful call resets the
\* failure count to zero, and fewer than failure_threshold consecutive
\* failures never open it.
C31_OpensAtThreshold ==
    [][/\ (cb.state = "closed" /\ cb'.state = "open")
            => (streak' >= failure_threshold /\ cb_step'.kind = "raised")
       /\ \A p \in Callers :
            /\ (CallEnds(p) /\ cb_step'.kind = "raised" /\ cb.state = "closed"
                  /\ streak' >= failure_threshold)
                 => cb'.state = "open"
            /\ (CallEnds(p) /\ cb_step'.kind = "returned")
                 => cb'.failure_count = 0
       /\ (cb.state # "open" /\ streak' < failure_threshold)
            => cb'.state # "open"]_vars

\* the breaker has opened on the third failure in a row, after calls that
\* did not fail
C31_Witness ==
    /\ cb.state = "open"
    /\ cb.failure_count = failure_threshold
    /\ streak = failure_threshold
    /\ cb_step.kind = "raised"
    /\ cb_started = MaxBreakerCalls

\* C32: a call that begins while the breaker is open and less than
\* recovery_timeout has passed since the last failure raises at once: the
\* wrapped function is not invoked and state, failure count and last
\* failure time stay as they were.
C32_FailFastFrame ==
    [][(/\ CallBegins
        /\ cb.state = "open"
        /\ now - cb.last_failure_time < recovery_timeout)
       => (/\ cb_step'.kind = "fail_fast"
           /\ cb' = cb
           /\ cb_pc' = cb_pc)]_vars

\* a call has failed fast some time after the last failure
C32_Witness ==
    /\ cb_step.kind = "fail_fast"
    /\ cb.state = "open"
    /\ now > cb.last_failure_time

\* C33: the first call through an open breaker once recovery_timeout has
\* passed moves it to half-open and invokes the wrapped function; when that
\* call succeeds the breaker is closed with failure count 0, when it fails
\* the breaker is open again.
C33_Probe ==
    [][/\ (CallBegins /\ cb.state = "open" /\ ShouldAttemptReset(cb))
            => (/\ cb'.state = "half_open"
                /\ cb_pc'[cb_step'.caller] = "probe")
       /\ \A p \in Callers :
            (cb_pc[p] = "probe" /\ cb_pc'[p] = "idle")
               => /\ cb_step'.kind = "returned"
                       => (cb'.state = "closed" /\ cb'.failure_count = 0)
                  /\ cb_step'.kind = "raised" => cb'.state = "open"]_vars

\* C36: an open breaker has counted at least failure_threshold failures.
C36_OpenMeansCounted ==
    cb.state = "open" => cb.failure_count >= failure_threshold

\* C34: a subscription that has been idle for more than the timeout
\* terminates, even if no message is published any more.
C34_IdleTerminates ==
    (/\ sub_pc = "listening"
     /\ sub_in = <<>>
     /\ now - start_time > SubscriptionTimeout) ~> (sub_pc = "closed")

\* caller p executes the hset of its update_job call in this step
HsetStep(p) ==
    /\ reg_call[p].name = "update"
    /\ reg_call[p].pc = "hset"
    /\ reg_call'[p].pc = "publish"

\* C35: the write of update(job_id, patch) changes only the fields named in
\* the patch and updated_at; every other field of the stored record keeps
\* its value, also when update calls for the job overlap.
C35_UpdateFrame ==
    [][\A p \in Callers :
         (HsetStep(p) /\ reg_call[p].job \in DOMAIN jobs)
            => \A f \in DOMAIN jobs[reg_call[p].job]
                        \ (DOMAIN reg_call[p].updates \cup {"updated_at"}) :
                  jobs'[reg_call[p].job][f] = jobs[reg_call[p].job][f]]_vars

\* C37: a job whose record a completed cleanup has removed has no record in
\* any later state.
C37_CleanedStaysGone ==
    \A p \in Callers :
        (reg_call[p].name = "cleanup" /\ reg_call[p].pc = "done"
           /\ reg_call[p].result)
            => reg_call[p].job \notin DOMAIN jobs

\* the positions, in the events published for job j, of the job_updated
\* events with a terminal status
TerminalEvents(j) ==
    {i \in DOMAIN channel[j] :
        /\ channel[j][i].type = "job_updated"
        /\ channel[j][i].status \in Terminal}

OriginalId(e) == <<e.id[1] - 1, e.id[2]>>

\* C39: a replay event of a stream replays an event that was emitted before
\* the stream's own connection_start (ids are numbered in emission order)
\* and not on the stream itself, and no event id is yielded twice on one
\* stream.
C39_ReplayOnlyEarlier ==
    \A c \in Conns :
        /\ \A i \in 1..Len(out[c]) :
              out[c][i].event_type = "replay"
                 => /\ OriginalId(out[c][i])[1] = 0
                         => OriginalId(out[c][i])[2] < out[c][1].id[2]
                    /\ \A k \in 1..Len(out[c]) :
                          out[c][k].id # OriginalId(out[c][i])
        /\ \A a, b \in 1..Len(out[c]) :
              a # b => out[c][a].id # out[c][b].id

\* connection c is listed in job_connections, under any job / under its own
Listed(c) ==
    \E j \in DOMAIN job_connections :
        \E i \in DOMAIN job_connections[j] : job_connections[j][i] = c

ListedUnderJob(c) ==
    /\ c \in DOMAIN sse_conn
    /\ sse_conn[c].job_id \in DOMAIN job_connections
    /\ \E i \in DOMAIN job_connections[sse_conn[c].job_id] :
          job_connections[sse_conn[c].job_id][i] = c

====
